---- MODULE Spec2Model ----
(***************************************************************************)
(* Model of the Caliptra MCU emulator's system step loop                   *)
(* (emulator/app/src/emulator.rs, main.rs, lib.rs) and of the debugger     *)
(* adapter that drives it (emulator/app/src/gdb/gdb_target.rs).            *)
(***************************************************************************)
EXTENDS Integers, Sequences, FiniteSets, TLC

VARIABLES
    \* ---- Emulator (emulator.rs) ----
    pc,                 \* mcu_cpu program counter
    mcu_action,         \* StepAction returned by the last mcu_cpu.step
    caliptra_action,    \* action returned by the last caliptra_cpu.step
    bmc_present,        \* Emulator.bmc is Some
    tick_log,           \* components touched by the last Emulator::step, in order
    step_ret,           \* SystemStepAction returned by the last Emulator::step
    stdin_uart,         \* NoUart (None), <<>> (the slot holds None) or <<b>> (Some(b))
    poll_scheduled,     \* the last Emulator::step called timer.schedule_poll_in(1)
    EMULATOR_TICKS,     \* lib.rs static tick counter
    \* ---- free_run / read_console (main.rs) ----
    running,            \* Arc<AtomicBool> created by run()
    EMULATOR_RUNNING,   \* static flag polled by read_console
    free_run_pc,        \* "loop" while free_run iterates, "done" after it left the loop
    stepCalls,          \* number of Emulator::step calls made by free_run
    buffer,             \* read_console's local byte buffer
    \* ---- GdbTarget (gdb_target.rs) ----
    exec_mode,          \* ExecMode
    breakpoints,        \* Vec<u32>
    interrupt_requested,
    call,               \* the run entry point most recently called
    in_run,             \* that call has not returned yet
    runSteps,           \* Emulator::step calls made so far by the call in progress
    stepped,            \* the latest GdbTarget operation executed an Emulator::step
    stop,               \* value returned by that call ("None" while running)
    bp_log,             \* the most recent breakpoint operation(s) and their result
    \* ---- lib.rs: sleep_emulator_ticks and the flag trigger_exit_request clears ----
    LIB_EMULATOR_RUNNING, \* lib.rs static EMULATOR_RUNNING
    sleep_pc,           \* "idle", "entry" / "loop" (at the while test), "wait", "returned"
    sleep_wait,         \* the ticks argument of the call
    sleep_start,        \* EMULATOR_TICKS loaded at the call
    sleep_steps,        \* Emulator::step calls made at the call, then at its last poll
    \* ---- El2PicBus (el2_pic.rs) ----
    pic_regs,           \* register contents of the peripheral behind the bus
    pic_last,           \* the latest bus access and what it did
    \* ---- recovery controller and event channels (emulator.rs, Bmc) ----
    rec_phase,          \* "unbuilt" before Emulator::new, "built", or "failed"
    flash_boot,         \* feature test-flash-based-boot
    new_log,            \* what Emulator::new did, in order
    bmc_state,          \* recovery controller state
    bmc_queue,          \* recovery images not yet offered
    bmc_current,        \* <<>> or the one image in flight
    to_caliptra,        \* events the controller sent to the Caliptra CPU
    from_caliptra,      \* events the Caliptra CPU sent to the controller
    from_mcu,           \* events the MCU sent to the controller
    observed,           \* images the Caliptra CPU has observed, in order
    rec_last,           \* per receiver, whether an event sent in the same tick was taken
    \* ---- DoeDriver (doe/driver.rs) ----
    doe_apps,           \* per app: waiting_rx, pending_tx
    current_app,        \* OptionalCell<ProcessId>: 0 is empty
    tx_busy,            \* the transport has a transmission in flight
    tx_owner,           \* app whose accepted send awaits send_done, 0 if none
    doe_last,           \* the latest driver operation and what it did
    \* ---- ResetReasonEmulator (reset_reason.rs) ----
    rr_value,
    rr_pwrgood,
    rr_captured,        \* first_mci_reset_captured
    rr_resets,          \* handle_warm_reset calls since the last power-down (saturating)
    rr_cycle,           \* "init", "down", "up" (powered up again, no warm reset yet), "reset"
    rr_last,            \* the latest operation and the value before it
    \* ---- run() and the UART capture vector (main.rs, emulator.rs) ----
    run_pc,             \* "start", "free_run" (emulator built, loop entered), "returned"
    capture_uart_output, \* argument of run()
    uart_output,        \* Emulator.uart_output: NoCapture (None) or the shared vector
    run_uart_output,    \* run()'s local uart_output: NoCapture (None) or a vector
    run_ret,            \* the vector run() returned
    uart_tx_written,    \* bytes the guest wrote to the UART TX register, in order
    \* ---- the bytes that pass through the stdin mailbox (main.rs, emulator.rs) ----
    typed,              \* bytes read_console appended to its buffer, in order
    slotted,            \* bytes read_console stored in the slot, in order
    taken,              \* bytes the guest took out of the slot, in order
    \* ---- memory map of build_bus_system (emulator.rs, config/src/lib.rs) ----
    map_pc,             \* "start", "built", "rejected", "stepped"
    map_cli,            \* EmulatorArgs: per field None or the override
    map_built,          \* the offsets the buses are built from
    \* ---- firmware bundle (builder/src/all.rs) ----
    zip_pc,             \* "start", "written" (all_build returned), "read"
    zip_files,          \* per entry name, the bytes of the file all_build packed
    zip_archive,        \* the entries of the ZIP file, in order
    zip_binaries,       \* the FirmwareBinaries read_from_zip returned
    \* ---- Shim (external_shim.rs) ----
    read_callback,      \* a read callback is installed
    write_callback,     \* a write callback is installed
    shim_last,          \* the latest bus access and what it did
    \* ---- GdbTarget memory access (gdb_target.rs) ----
    mem_last,           \* the latest read_addrs / write_addrs and what it did
    \* ---- ColdBoot::run (rom/src/cold_boot.rs) ----
    boot_pc,            \* position of the ROM in ColdBoot::run
    boot_params,        \* RomParameters and build target, as far as run branches on them
    boot_soc,           \* Caliptra's status flags as the SoC registers show them
    boot_sram,          \* the first word of MCU SRAM
    boot_log,           \* what the ROM did and observed, in order
    boot_code,          \* argument of fatal_error, 0 if it was not called
    \* ---- MCTP control-command test (tests/mctp_ctrl_cmd.rs) ----
    test_state,         \* Test.test_state, "none" before Test::new
    passed,             \* Test.passed
    resp_msg,           \* Test.resp_msg, the expected response
    got_msg             \* what receive_response returned, empty for no response

emuVars == <<pc, mcu_action, caliptra_action, bmc_present, tick_log, step_ret,
             stdin_uart, poll_scheduled, EMULATOR_TICKS>>
freeVars == <<running, EMULATOR_RUNNING, free_run_pc, stepCalls, buffer>>
gdbVars == <<exec_mode, breakpoints, interrupt_requested, call, in_run,
             runSteps, stepped, stop, bp_log>>
sleepVars == <<LIB_EMULATOR_RUNNING, sleep_pc, sleep_wait, sleep_start,
               sleep_steps>>
picVars == <<pic_regs, pic_last>>
recVars == <<rec_phase, flash_boot, new_log, bmc_state, bmc_queue,
             bmc_current, to_caliptra, from_caliptra, from_mcu, observed,
             rec_last>>
doeVars == <<doe_apps, current_app, tx_busy, tx_owner, doe_last>>
rrVars == <<rr_value, rr_pwrgood, rr_captured, rr_resets, rr_cycle, rr_last>>
runVars == <<run_pc, capture_uart_output, uart_output, run_uart_output,
             run_ret, uart_tx_written>>
mailVars == <<typed, slotted, taken>>
mapVars == <<map_pc, map_cli, map_built>>
zipVars == <<zip_pc, zip_files, zip_archive, zip_binaries>>
shimVars == <<read_callback, write_callback, shim_last>>
memVars == <<mem_last>>
bootVars == <<boot_pc, boot_params, boot_soc, boot_sram, boot_log, boot_code>>
testVars == <<test_state, passed, resp_msg, got_msg>>
extVars == <<runVars, mailVars, mapVars, zipVars, shimVars, memVars, bootVars,
             testVars>>
\* the groups of extVars other than one of them
besideRun == <<mailVars, mapVars, zipVars, shimVars, memVars,
               bootVars, testVars>>
besideMail == <<runVars, mapVars, zipVars, shimVars, memVars,
               bootVars, testVars>>
besideMap == <<runVars, mailVars, zipVars, shimVars, memVars,
               bootVars, testVars>>
besideZip == <<runVars, mailVars, mapVars, shimVars, memVars,
               bootVars, testVars>>
besideShim == <<runVars, mailVars, mapVars, zipVars, memVars,
               bootVars, testVars>>
besideMem == <<runVars, mailVars, mapVars, zipVars, shimVars,
               bootVars, testVars>>
besideBoot == <<runVars, mailVars, mapVars, zipVars, shimVars, memVars,
                testVars>>
besideTest == <<runVars, mailVars, mapVars, zipVars, shimVars, memVars,
                bootVars>>
periphVars == <<picVars, recVars, doeVars, rrVars, extVars>>
vars == <<emuVars, freeVars, gdbVars, sleepVars, periphVars>>

----------------------------------------------------------------------------
\* Bounds of the model

\* program counters and breakpoint addresses range over 0..MaxAddr
MaxAddr == 1
\* the first word of MCU SRAM ranges over 0..MaxSramWord
MaxSramWord == 1
\* MCTP messages are at most MaxMsgLen bytes long
MaxMsgLen == 3
\* and their bytes range over 0..MaxByte
MaxByte == 1
\* longest breakpoint vector explored
MaxBreakpoints == 3
\* Emulator::step calls explored in one free_run
MaxSteps == 4
\* Emulator::step calls explored in one unbounded cond_run
MaxRunSteps == 1002
\* gdb_target.rs:159  for _ in 0..1000
ResponsiveSteps == 1000

\* Emulator.stdin_uart is None
NoUart == <<-1>>

Addrs == 0..MaxAddr
StepActions == {"Continue", "Break", "Fatal"}
CaliptraActions == {"Continue", "Fatal"}
Signals == {"None", "SIGINT", "SIGALRM", "SIGTERM"}
Keys == {"Char_a", "Char_e_acute", "Enter", "Backspace", "Other"}

----------------------------------------------------------------------------
\* Emulator::step

\* The components Emulator::step touches, in program order.
StepOrderEarlyExit(m, bmc) ==
    IF m = "Fatal" THEN <<"mcu_cpu">>
    ELSE <<"mcu_cpu", "caliptra_cpu">>
         \o (IF bmc THEN <<"bmc">> ELSE <<>>) \o <<"stdin_uart">>

StepOrder(m, bmc) ==
    <<"mcu_cpu", "caliptra_cpu">>
    \o (IF bmc THEN <<"bmc">> ELSE <<>>)
    \o <<"stdin_uart">>

\* The value Emulator::step returns: the final match on mcu_action.
SystemActionCaliptraExits(m, c) ==
    IF m = "Continue" /\ c = "Continue" THEN "Continue"
    ELSE IF m = "Break" THEN "Break"
    ELSE "Exit"

SystemAction(m, c) ==
    IF m = "Continue" THEN "Continue"
    ELSE IF m = "Break" THEN "Break"
    ELSE "Exit"

\* Whether the guest reads the UART RX register during mcu_cpu.step; the
\* read only has an effect while the stdin slot holds a byte.
RxReads == IF stdin_uart \in {NoUart, <<>>} THEN {FALSE} ELSE BOOLEAN

\* One call of Emulator::step.  m, npc and rx are the outcome of mcu_cpu.step
\* (its action, the program counter it leaves, whether the guest read the
\* UART RX register), c is the outcome of caliptra_cpu.step.
EmulatorStep(m, npc, c, rx) ==
    LET slot == IF rx /\ stdin_uart # NoUart THEN <<>> ELSE stdin_uart
    IN  /\ mcu_action' = m
        /\ pc' = npc
        /\ caliptra_action' = c
        /\ stdin_uart' = slot
        /\ tick_log' = StepOrder(m, bmc_present)
        /\ poll_scheduled' = (slot \notin {NoUart, <<>>})
        /\ step_ret' = SystemAction(m, c)
        /\ UNCHANGED <<bmc_present, EMULATOR_TICKS>>

----------------------------------------------------------------------------
\* main.rs: free_run, read_console, the Ctrl-C handler

\* bytes a key event appends to read_console's buffer
KeyBytes(k) ==
    CASE k = "Char_a" -> <<97>>
      [] k = "Char_e_acute" -> <<195, 169>>
      [] k = "Enter" -> <<10>>
      [] k = "Backspace" -> <<8>>
      [] OTHER -> <<>>

\* one iteration of free_run's while loop: what it does to the emulator
FreeRunLoop ==
    /\ free_run_pc = "loop"
    /\ IF ~running
       THEN /\ free_run_pc' = "done"
            /\ UNCHANGED <<emuVars, stepCalls>>
       ELSE /\ stepCalls < MaxSteps
            /\ \E m \in StepActions, npc \in Addrs, c \in CaliptraActions,
                  rx \in RxReads :
                 /\ EmulatorStep(m, npc, c, rx)
                 /\ free_run_pc' = IF SystemAction(m, c) = "Continue"
                                   THEN "loop" ELSE "done"
            /\ stepCalls' = stepCalls + 1
    /\ UNCHANGED <<running, EMULATOR_RUNNING, buffer, gdbVars, sleepVars>>

\* one iteration of free_run's while loop
FreeRunIter ==
    /\ FreeRunLoop
    /\ UNCHANGED periphVars

SlotIsNoneAlways(slot) == TRUE

\* stdin_uart.is_none() under the lock
SlotIsNone(slot) == slot = <<>>

\* one iteration of read_console's while loop: what it does to its buffer
\* and to the slot
ReadConsoleLoop ==
    /\ stdin_uart # NoUart
    /\ EMULATOR_RUNNING
    /\ IF buffer = <<>>
       THEN /\ \E k \in Keys : buffer' = KeyBytes(k)
            /\ UNCHANGED stdin_uart
       ELSE IF SlotIsNone(stdin_uart)
            THEN /\ stdin_uart' = <<Head(buffer)>>
                 /\ buffer' = Tail(buffer)
            ELSE UNCHANGED <<stdin_uart, buffer>>

\* one iteration of read_console's while loop
ReadConsoleIter ==
    /\ ReadConsoleLoop
    /\ UNCHANGED <<pc, mcu_action, caliptra_action, bmc_present, tick_log,
                   step_ret, poll_scheduled, EMULATOR_TICKS>>
    /\ UNCHANGED <<running, EMULATOR_RUNNING, free_run_pc, stepCalls, gdbVars,
                   sleepVars, periphVars>>

\* ctrlc handler installed by run()
CtrlC ==
    /\ running' = FALSE
    /\ UNCHANGED <<emuVars, EMULATOR_RUNNING, free_run_pc, stepCalls, buffer,
                   gdbVars, sleepVars, periphVars>>

\* ---- constructed states of the other components ----

\* largest register value written over the PIC bus
MaxPicVal == 1

\* bus addresses exercised: region starts, region ends, holes, odd addresses
PicAddrs == {0, 2, 1024, 4096, 8192, 12288, 12292, 16384, 20480}

RvSizes == {"Byte", "HalfWord", "Word"}

\* match addr { .. } of El2PicBus::read: the register the address selects
PicReadTarget(addr) ==
    CASE addr \in 0..1023 -> <<"meipl", addr \div 4>>
      [] addr \in 4096..5119 -> <<"meip", (addr - 4096) \div 4>>
      [] addr \in 8192..9215 -> <<"meie", (addr - 8192) \div 4>>
      [] addr \in 12288..12291 -> <<"mpiccfg", 0>>
      [] addr \in 16384..17407 -> <<"meigwctrl", (addr - 16384) \div 4>>
      [] addr \in 20480..21503 -> <<"meigwclr", (addr - 20480) \div 4>>
      [] OTHER -> <<"none", 0>>

\* match addr { .. } of El2PicBus::write: meip has no write arm
PicWriteTarget(addr) ==
    CASE addr \in 0..1023 -> <<"meipl", addr \div 4>>
      [] addr \in 8192..9215 -> <<"meie", (addr - 8192) \div 4>>
      [] addr \in 12288..12291 -> <<"mpiccfg", 0>>
      [] addr \in 16384..17407 -> <<"meigwctrl", (addr - 16384) \div 4>>
      [] addr \in 20480..21503 -> <<"meigwclr", (addr - 20480) \div 4>>
      [] OTHER -> <<"none", 0>>

PicRegs == {PicReadTarget(a) : a \in PicAddrs} \ {<<"none", 0>>}

NoPicAccess ==
    [op |-> "none", size |-> "Word", addr |-> 0, ret |-> "Ok", calls |-> <<>>,
     data |-> 0]

InitPic ==
    /\ pic_regs = [r \in PicRegs |-> 0]
    /\ pic_last = NoPicAccess

\* lib.rs statics and no sleeper yet
InitSleep ==
    /\ LIB_EMULATOR_RUNNING = TRUE
    /\ sleep_pc = "idle"
    /\ sleep_wait = 0
    /\ sleep_start = 0
    /\ sleep_steps = 0

NoRecLast ==
    [bmc_took |-> FALSE, bmc_same_tick |-> FALSE, cal_took |-> FALSE,
     cal_same_tick |-> FALSE]

\* before Emulator::new
InitRec ==
    /\ rec_phase = "unbuilt"
    /\ flash_boot = FALSE
    /\ new_log = <<>>
    /\ bmc_state = "Idle"
    /\ bmc_queue = <<>>
    /\ bmc_current = <<>>
    /\ to_caliptra = <<>>
    /\ from_caliptra = <<>>
    /\ from_mcu = <<>>
    /\ observed = <<>>
    /\ rec_last = NoRecLast

\* userspace processes granted to the DOE driver
Apps == {1, 2}

NoDoeOp ==
    [op |-> "none", app |-> 0, num |-> 0, ret |-> "Ok", transmits |-> <<>>,
     upcalls |-> <<>>, released |-> 0,
     frame |-> [len |-> 0, hdr_ok |-> FALSE, hdr_len |-> 0, type |-> 0,
                index |-> 0],
     owner_before |-> 0, waiting_before |-> {}, read_len |-> 0]

\* DoeDriver::new and default grants
InitDoe ==
    /\ doe_apps = [a \in Apps |-> [waiting_rx |-> FALSE, pending_tx |-> FALSE]]
    /\ current_app = 0
    /\ tx_busy = FALSE
    /\ tx_owner = 0
    /\ doe_last = NoDoeOp

\* ResetReasonEmulator::new
InitResetReason ==
    /\ rr_value = 0
    /\ rr_pwrgood = TRUE
    /\ rr_captured = FALSE
    /\ rr_resets = 0
    /\ rr_cycle = "init"
    /\ rr_last = [op |-> "new", before |-> 0, pwrgood |-> TRUE, resets |-> 0,
                  cycle |-> "init"]

\* Option::None of the capture vector
NoCapture == <<-1>>

\* run() has not built the emulator yet
InitRun ==
    /\ run_pc = "start"
    /\ capture_uart_output = FALSE
    /\ uart_output = NoCapture
    /\ run_uart_output = NoCapture
    /\ run_ret = <<>>
    /\ uart_tx_written = <<>>

\* nothing typed yet
InitMail ==
    /\ typed = <<>>
    /\ slotted = <<>>
    /\ taken = <<>>

\* regions of the memory map that have an offset and a size
Regions == {"rom", "dccm", "sram", "i3c", "mci", "mbox", "soc", "otp", "lc"}

\* the fields of the map an EmulatorArgs option exists for
Fields == Regions \X {"offset", "size"}

\* Option::None of an override
NoOverride == -1

\* no argument parsed yet
InitMap ==
    /\ map_pc = "start"
    /\ map_cli = [f \in Fields |-> NoOverride]
    /\ map_built = [f \in Fields |-> 0]

\* the entry names: CALIPTRA_ROM_NAME .. SOC_MANIFEST_NAME, in the order
\* all_build adds them
EntryNames ==
    <<"caliptra_rom.bin", "caliptra_fw.bin", "mcu_rom.bin", "mcu_runtime.bin",
      "soc_manifest.bin">>

\* the fields of FirmwareBinaries
BinaryFields ==
    {"caliptra_rom", "caliptra_fw", "mcu_rom", "mcu_runtime", "soc_manifest"}

\* FirmwareBinaries::default()
DefaultBinaries == [f \in BinaryFields |-> <<>>]

\* no bundle built yet
InitZip ==
    /\ zip_pc = "start"
    /\ zip_files = [i \in 1..5 |-> <<>>]
    /\ zip_archive = <<>>
    /\ zip_binaries = DefaultBinaries

NoShimAccess ==
    [op |-> "none", size |-> "Word", addr |-> 0, value |-> 0,
     installed |-> FALSE, calls |-> <<>>, cb_ret |-> FALSE, buffer |-> 0,
     ret |-> "Ok", data |-> 0]

\* Shim::new
InitShim ==
    /\ read_callback = FALSE
    /\ write_callback = FALSE
    /\ shim_last = NoShimAccess

NoMemAccess ==
    [op |-> "none", start |-> 0, sizes |-> <<>>, data |-> <<>>,
     before |-> <<>>]

\* the debugger has made no memory access
InitMem == mem_last = NoMemAccess

\* the status flags of Caliptra the ROM polls
BootFlags == {"ready_for_fuses", "ready_for_mbox", "fw_ready",
              "ready_for_runtime"}

\* RomParameters::default(), a riscv32 build
DefaultParams ==
    [lifecycle_transition |-> FALSE, burn_lifecycle_tokens |-> FALSE,
     program_field_entropy |-> FALSE, flash_recovery |-> FALSE,
     riscv32 |-> TRUE]

\* the MCU is held in reset: ColdBoot::run has not been entered
InitBoot ==
    /\ boot_pc = "reset"
    /\ boot_params = DefaultParams
    /\ boot_soc = [f \in BootFlags |-> FALSE]
    /\ boot_sram = 0
    /\ boot_log = <<>>
    /\ boot_code = 0

\* no Test has been made yet
InitTest ==
    /\ test_state = "none"
    /\ passed = FALSE
    /\ resp_msg = <<>>
    /\ got_msg = <<>>

InitExt ==
    /\ InitRun /\ InitMail /\ InitMap /\ InitZip /\ InitShim /\ InitMem
    /\ InitBoot /\ InitTest

InitPeriph == InitPic /\ InitRec /\ InitDoe /\ InitResetReason /\ InitExt

InitEmulator ==
    /\ pc \in Addrs
    /\ mcu_action = "Continue"
    /\ caliptra_action = "Continue"
    /\ bmc_present \in BOOLEAN
    /\ tick_log = <<>>
    /\ step_ret = "Continue"
    /\ poll_scheduled = FALSE
    /\ EMULATOR_TICKS = 0

InitGdbTarget ==
    /\ exec_mode = "Continue"
    /\ breakpoints = <<>>
    /\ interrupt_requested = FALSE
    /\ call = "none"
    /\ in_run = FALSE
    /\ runSteps = 0
    /\ stepped = FALSE
    /\ stop = "None"
    /\ bp_log = [op |-> "none", addr |-> 0, ret |-> FALSE, before |-> <<>>]


InitFree ==
    /\ InitEmulator
    /\ stdin_uart \in {NoUart, <<>>}
    /\ running = TRUE
    /\ EMULATOR_RUNNING = TRUE
    /\ free_run_pc = "loop"
    /\ stepCalls = 0
    /\ buffer = <<>>
    /\ InitGdbTarget
    /\ InitSleep
    /\ InitPeriph

NextFree == FreeRunIter \/ ReadConsoleIter \/ CtrlC

SpecFree == InitFree /\ [][NextFree]_vars

----------------------------------------------------------------------------
\* gdb_target.rs: GdbTarget

\* self.breakpoints.contains(&pc)
ContainsLast(bps, p) == bps # <<>> /\ bps[Len(bps)] = p

Contains(bps, p) == \E i \in 1..Len(bps) : bps[i] = p

\* self.breakpoints.iter().position(|x| *x == addr)
Position(bps, a) ==
    IF Contains(bps, a)
    THEN CHOOSE i \in 1..Len(bps) :
            bps[i] = a /\ \A j \in 1..(i - 1) : bps[j] # a
    ELSE 0

\* Vec::remove(pos)
RemoveAt(bps, pos) ==
    [i \in 1..(Len(bps) - 1) |-> IF i < pos THEN bps[i] ELSE bps[i + 1]]

\* add_sw_breakpoint: the vector it leaves
AddBreakpoint(bps, a) == Append(bps, a)

\* remove_sw_breakpoint: the vector it leaves
RemoveBreakpointAll(bps, a) == SelectSeq(bps, LAMBDA x : x # a)

RemoveBreakpoint(bps, a) ==
    IF Position(bps, a) = 0 THEN bps ELSE RemoveAt(bps, Position(bps, a))

\* Which entry points test interrupt_requested before they step:
\* run_single_step always, cond_run and run_responsive's loop in Continue mode.
ChecksInterruptAlways(kind, mode) == TRUE

ChecksInterruptResponsiveOnly(kind, mode) ==
    kind = "run_responsive" /\ mode = "Continue"

ChecksInterrupt(kind, mode) ==
    kind = "run_single_step" \/ mode = "Continue"

\* ExecMode::Step arm: the step's action is dropped
StepModeOutcomePropagate(r) == IF r = "Exit" THEN "Exited" ELSE "DoneStep"

StepModeOutcome(r) == "DoneStep"

\* ExecMode::Continue: the match on the action Emulator::step returned;
\* "None" stands for no stop
ContinueOutcomeNoBreakpoint(r, bps, p) ==
    IF r = "Continue" THEN "None"
    ELSE IF r = "Break" THEN "Watch"
    ELSE "Exited"

ContinueOutcomeExitIgnored(r, bps, p) ==
    IF r = "Continue"
    THEN (IF Contains(bps, p) THEN "SwBreak" ELSE "None")
    ELSE IF r = "Break" THEN "Watch"
    ELSE "None"

ContinueOutcome(r, bps, p) ==
    IF r = "Continue"
    THEN (IF Contains(bps, p) THEN "SwBreak" ELSE "None")
    ELSE IF r = "Break" THEN "Watch"
    ELSE "Exited"

\* run_responsive's for loop is exhausted after n iterations
ResponsiveDoneOffByOne(n) == n = ResponsiveSteps + 1

ResponsiveDone(n) == n = ResponsiveSteps

\* the call returns s; its step counter dies with it
ReturnWith(s) == stop' = s /\ in_run' = FALSE /\ runSteps' = 0

\* One pass through the body of the run entry point kind: a Step-mode call,
\* run_single_step, or one iteration of cond_run's / run_responsive's loop.
\* Loops longer than MaxSteps iterations are followed only while no
\* breakpoint is installed.
RunBody(kind) ==
    /\ in_run
    /\ call = kind
    /\ IF ChecksInterrupt(kind, exec_mode) /\ interrupt_requested
       THEN /\ interrupt_requested' = FALSE
            /\ ReturnWith("SIGINT")
            /\ stepped' = FALSE
            /\ UNCHANGED emuVars
       ELSE /\ kind = "run" /\ exec_mode = "Continue" => runSteps < MaxRunSteps
            /\ \E m \in StepActions, npc \in Addrs, c \in CaliptraActions,
                  rx \in RxReads :
                 /\ EmulatorStep(m, npc, c, rx)
                 /\ IF exec_mode = "Step"
                    THEN ReturnWith(StepModeOutcome(SystemAction(m, c)))
                    ELSE LET out == ContinueOutcome(SystemAction(m, c),
                                                    breakpoints, npc)
                         IN  IF out # "None" \/ kind = "run_single_step"
                             THEN ReturnWith(out)
                             ELSE IF kind = "run_responsive"
                                     /\ ResponsiveDone(runSteps + 1)
                             THEN ReturnWith("SIGALRM")
                             ELSE /\ breakpoints = <<>> \/ runSteps + 1 < MaxSteps
                                  /\ stop' = "None"
                                  /\ in_run' = TRUE
                                  /\ runSteps' = runSteps + 1
            /\ stepped' = TRUE
            /\ UNCHANGED interrupt_requested
    /\ UNCHANGED <<exec_mode, breakpoints, call, bp_log, freeVars, sleepVars,
                   periphVars>>

\* GdbTarget::run (with cond_run)
Run == RunBody("run")

\* GdbTarget::run_responsive
RunResponsive == RunBody("run_responsive")

\* GdbTarget::run_single_step
RunSingleStep == RunBody("run_single_step")

NoBpLog == [op |-> "none", addr |-> 0, ret |-> FALSE, before |-> <<>>]

\* the protocol server enters one of the run entry points
CallRun ==
    /\ ~in_run
    /\ \E kind \in {"run", "run_responsive", "run_single_step"} : call' = kind
    /\ in_run' = TRUE
    /\ runSteps' = 0
    /\ stepped' = FALSE
    /\ stop' = "None"
    /\ bp_log' = NoBpLog
    /\ UNCHANGED <<exec_mode, breakpoints, interrupt_requested, emuVars,
                   freeVars, sleepVars,
                   periphVars>>

\* Any other request of the debugger follows the return of the last run
\* call: its return value has been taken.
Served == stepped' = FALSE /\ call' = "none" /\ stop' = "None"

\* GdbTarget::request_interrupt
RequestInterrupt ==
    /\ ~in_run
    /\ Served
    /\ interrupt_requested' = TRUE
    /\ UNCHANGED <<exec_mode, breakpoints, in_run, runSteps,
                   bp_log, emuVars, freeVars, sleepVars,
                   periphVars>>

\* SingleThreadSingleStep::step
SingleStep ==
    /\ ~in_run
    /\ Served
    /\ \E sig \in Signals :
         exec_mode' = IF sig \in {"None", "SIGINT", "SIGALRM"}
                      THEN "Step" ELSE exec_mode
    /\ UNCHANGED <<breakpoints, interrupt_requested, in_run, runSteps,
                   bp_log, emuVars, freeVars, sleepVars,
                   periphVars>>

\* SingleThreadResume::resume
Resume ==
    /\ ~in_run
    /\ Served
    /\ \E sig \in Signals :
         exec_mode' = IF sig \in {"None", "SIGINT", "SIGALRM"}
                      THEN "Continue" ELSE exec_mode
    /\ UNCHANGED <<breakpoints, interrupt_requested, in_run, runSteps,
                   bp_log, emuVars, freeVars, sleepVars,
                   periphVars>>

\* SingleThreadBase::write_registers: the program counter part
WriteRegisters ==
    /\ ~in_run
    /\ Served
    /\ \E a \in Addrs : pc' = a
    /\ UNCHANGED <<mcu_action, caliptra_action, bmc_present, tick_log,
                   step_ret, stdin_uart, poll_scheduled, EMULATOR_TICKS>>
    /\ UNCHANGED <<exec_mode, breakpoints, interrupt_requested, in_run,
                   runSteps, bp_log, freeVars, sleepVars,
                   periphVars>>

\* SwBreakpoint::add_sw_breakpoint
AddSwBreakpoint ==
    /\ ~in_run
    /\ Served
    /\ Len(breakpoints) < MaxBreakpoints
    /\ \E a \in Addrs :
         /\ breakpoints' = AddBreakpoint(breakpoints, a)
         /\ bp_log' = [op |-> "add", addr |-> a, ret |-> TRUE,
                       before |-> breakpoints]
    /\ UNCHANGED <<exec_mode, interrupt_requested, in_run, runSteps,
                   emuVars, freeVars, sleepVars,
                   periphVars>>

\* SwBreakpoint::remove_sw_breakpoint
RemoveSwBreakpoint ==
    /\ ~in_run
    /\ Served
    /\ \E a \in Addrs :
         /\ breakpoints' = RemoveBreakpoint(breakpoints, a)
         /\ bp_log' = IF bp_log.op = "add" /\ bp_log.addr = a
                      THEN [bp_log EXCEPT !.op = "add_remove",
                                          !.ret = Position(breakpoints, a) # 0]
                      ELSE [op |-> "remove", addr |-> a,
                            ret |-> Position(breakpoints, a) # 0,
                            before |-> breakpoints]
    /\ UNCHANGED <<exec_mode, interrupt_requested, in_run, runSteps,
                   emuVars, freeVars, sleepVars,
                   periphVars>>

\* The debugger build: no reader thread is spawned, so the stdin slot stays
\* empty, and the default build always creates the Bmc.
InitGdb ==
    /\ InitEmulator
    /\ bmc_present
    /\ stdin_uart = <<>>
    /\ running = TRUE
    /\ EMULATOR_RUNNING = TRUE
    /\ free_run_pc = "unused"
    /\ stepCalls = 0
    /\ buffer = <<>>
    /\ InitGdbTarget
    /\ InitSleep
    /\ InitPeriph

NextGdb ==
    \/ CallRun
    \/ Run
    \/ RunResponsive
    \/ RunSingleStep
    \/ RequestInterrupt
    \/ SingleStep
    \/ Resume
    \/ WriteRegisters
    \/ AddSwBreakpoint
    \/ RemoveSwBreakpoint

SpecGdb == InitGdb /\ [][NextGdb]_vars

----------------------------------------------------------------------------
\* el2_pic.rs: impl Bus for El2PicBus

\* if addr & 0x3 != 0 || size != RvSize::Word
PicMisalignedAddrOnly(size, addr) == addr % 4 # 0

PicMisaligned(size, addr) == addr % 4 # 0 \/ size # "Word"

\* El2PicBus::read
El2PicBusRead(size, addr) ==
    /\ IF PicMisaligned(size, addr)
       THEN pic_last' = [op |-> "read", size |-> size, addr |-> addr,
                         ret |-> "LoadAddrMisaligned", calls |-> <<>>,
                         data |-> 0]
       ELSE IF PicReadTarget(addr)[1] = "none"
       THEN pic_last' = [op |-> "read", size |-> size, addr |-> addr,
                         ret |-> "LoadAccessFault", calls |-> <<>>,
                         data |-> 0]
       ELSE pic_last' = [op |-> "read", size |-> size, addr |-> addr,
                         ret |-> "Ok",
                         calls |-> << <<"read", PicReadTarget(addr)>> >>,
                         data |-> pic_regs[PicReadTarget(addr)]]
    /\ UNCHANGED pic_regs

\* El2PicBus::write
El2PicBusWrite(size, addr, val) ==
    IF PicMisaligned(size, addr)
    THEN /\ pic_last' = [op |-> "write", size |-> size, addr |-> addr,
                         ret |-> "StoreAddrMisaligned", calls |-> <<>>,
                         data |-> val]
         /\ UNCHANGED pic_regs
    ELSE IF PicWriteTarget(addr)[1] = "none"
    THEN /\ pic_last' = [op |-> "write", size |-> size, addr |-> addr,
                         ret |-> "StoreAccessFault", calls |-> <<>>,
                         data |-> val]
         /\ UNCHANGED pic_regs
    ELSE /\ pic_last' = [op |-> "write", size |-> size, addr |-> addr,
                         ret |-> "Ok",
                         calls |-> << <<"write", PicWriteTarget(addr)>> >>,
                         data |-> val]
         /\ pic_regs' = [pic_regs EXCEPT ![PicWriteTarget(addr)] = val]

PicRead ==
    /\ \E size \in RvSizes, addr \in PicAddrs : El2PicBusRead(size, addr)
    /\ UNCHANGED <<emuVars, freeVars, gdbVars, sleepVars, extVars, recVars, doeVars,
                   rrVars>>

PicWrite ==
    /\ \E size \in RvSizes, addr \in PicAddrs, val \in 0..MaxPicVal :
         El2PicBusWrite(size, addr, val)
    /\ UNCHANGED <<emuVars, freeVars, gdbVars, sleepVars, extVars, recVars, doeVars,
                   rrVars>>

\* an emulator that is not stepping: only its peripherals are exercised
InitIdle ==
    /\ InitEmulator
    /\ bmc_present = FALSE
    /\ pc = 0
    /\ stdin_uart = NoUart
    /\ running = TRUE
    /\ EMULATOR_RUNNING = TRUE
    /\ free_run_pc = "unused"
    /\ stepCalls = 0
    /\ buffer = <<>>
    /\ InitGdbTarget
    /\ InitSleep

InitPicSpec == InitIdle /\ InitPeriph

NextPic == PicRead \/ PicWrite

SpecPic == InitPicSpec /\ [][NextPic]_vars

----------------------------------------------------------------------------
\* emulator.rs: Emulator::new, the event channels, the recovery controller

\* capacity given to each event channel
MaxChan == 2

\* BusSystem.recovery_images: (caliptra_firmware, soc_manifest, mcu_firmware)
RecoveryImages == <<"caliptra_firmware", "soc_manifest", "mcu_firmware">>

\* the three push_recovery_image calls of Emulator::new
PushOrderManifestFirst(images) == <<images[2], images[1], images[3]>>

PushOrder(images) == <<images[1], images[2], images[3]>>

\* what Emulator::new does with the event channels, in program order
NewLogBmcFirst(fb) ==
    IF fb
    THEN <<"caliptra_cpu.register_events", "mcu_cpu.register_events",
           "i3c_periph.register_event_channels">>
    ELSE <<"Bmc::new", "caliptra_cpu.register_events",
           "mcu_cpu.register_events", "push_recovery_image",
           "push_recovery_image", "push_recovery_image">>

NewLog(fb) ==
    IF fb
    THEN <<"caliptra_cpu.register_events", "mcu_cpu.register_events",
           "i3c_periph.register_event_channels">>
    ELSE <<"caliptra_cpu.register_events", "mcu_cpu.register_events",
           "Bmc::new", "push_recovery_image", "push_recovery_image",
           "push_recovery_image">>

\* Emulator::new: fb is feature test-flash-based-boot, read_ok is whether
\* read_binary found the Caliptra firmware and the SoC manifest
EmulatorNew ==
    /\ rec_phase = "unbuilt"
    /\ \E fb \in BOOLEAN, read_ok \in BOOLEAN :
         /\ flash_boot' = fb
         /\ IF ~fb /\ ~read_ok
            THEN /\ rec_phase' = "failed"
                 /\ UNCHANGED <<new_log, bmc_queue, bmc_present>>
            ELSE /\ rec_phase' = "built"
                 /\ new_log' = NewLog(fb)
                 /\ bmc_queue' = IF fb THEN <<>> ELSE PushOrder(RecoveryImages)
                 /\ bmc_present' = ~fb
    /\ UNCHANGED <<pc, mcu_action, caliptra_action, tick_log, step_ret,
                   stdin_uart, poll_scheduled, EMULATOR_TICKS>>
    /\ UNCHANGED <<bmc_state, bmc_current, to_caliptra, from_caliptra,
                   from_mcu, observed, rec_last>>
    /\ UNCHANGED <<freeVars, gdbVars, sleepVars, extVars, picVars, doeVars, rrVars>>

Event(kind, img) == [kind |-> kind, img |-> img, fresh |-> TRUE]

Aged(chan) == [i \in 1..Len(chan) |-> [chan[i] EXCEPT !.fresh = FALSE]]

\* events the MCU and the Caliptra CPU may send during their step
McuSends == {"none", "ack"}
CaliptraSends == {"none", "request_next", "ack", "error"}

\* mcu_cpu.step: a peripheral may send one event to the controller
McuCpuStep(st, ms) ==
    IF ms = "none" THEN st
    ELSE [st EXCEPT !.fromM = Append(@, Event(ms, ""))]

\* caliptra_cpu.step: pending events are delivered to the recovery
\* peripheral, which may send one event to the controller
CaliptraCpuStep(st, cs) ==
    LET imgs == SelectSeq(st.toC,
                          LAMBDA e : e.kind = "RecoveryImageAvailable")
        st1 == [st EXCEPT
                  !.obs = @ \o [i \in 1..Len(imgs) |-> imgs[i].img],
                  !.toC = <<>>,
                  !.cal_took = st.toC # <<>>,
                  !.cal_same_tick = \E i \in 1..Len(st.toC) : st.toC[i].fresh]
    IN  IF cs = "none" THEN st1
        ELSE [st1 EXCEPT !.fromC = Append(@, Event(cs, ""))]

\* the controller offers the head of its queue
BmcOffer(st) ==
    [st EXCEPT !.state = "ImageOffered",
               !.cur = <<Head(st.queue)>>,
               !.queue = Tail(st.queue),
               !.toC = Append(@, Event("RecoveryImageAvailable",
                                       Head(st.queue)))]

\* failure policy: back to Idle, the current blob discarded, an error event
\* to the peer
BmcFail(st) ==
    [st EXCEPT !.state = "Idle", !.cur = <<>>,
               !.toC = Append(@, Event("Error", ""))]

BmcAdvance(s) ==
    CASE s = "ImageOffered" -> "ActivateRequested"
      [] s = "ActivateRequested" -> "Streaming"
      [] s = "Streaming" -> "Complete"
      [] OTHER -> "Idle"

\* one event handled by the controller; the MCU side only serves the final
\* image
BmcEvent(st, kind, from) ==
    IF st.state = "Idle"
    THEN IF kind = "request_next" /\ from = "caliptra" /\ st.queue # <<>>
         THEN BmcOffer(st)
         ELSE BmcFail(st)
    ELSE IF kind = "ack" /\ (from = "caliptra" \/ st.queue = <<>>)
    THEN [st EXCEPT !.state = BmcAdvance(st.state)]
    ELSE BmcFail(st)

\* Bmc::step: at most one transition
BmcStep(st) ==
    IF st.state = "Complete"
    THEN IF st.queue # <<>> THEN BmcOffer(st)
         ELSE [st EXCEPT !.state = "Idle", !.cur = <<>>]
    ELSE IF st.fromC # <<>>
    THEN BmcEvent([st EXCEPT !.fromC = Tail(@), !.bmc_took = TRUE,
                             !.bmc_same_tick = Head(st.fromC).fresh],
                  Head(st.fromC).kind, "caliptra")
    ELSE IF st.fromM # <<>>
    THEN BmcEvent([st EXCEPT !.fromM = Tail(@), !.bmc_took = TRUE,
                             !.bmc_same_tick = Head(st.fromM).fresh],
                  Head(st.fromM).kind, "mcu")
    ELSE st

TickComponent(c, st, ms, cs) ==
    CASE c = "mcu_cpu" -> McuCpuStep(st, ms)
      [] c = "caliptra_cpu" -> CaliptraCpuStep(st, cs)
      [] c = "bmc" -> BmcStep(st)
      [] OTHER -> st

RECURSIVE TickFold(_, _, _, _)
TickFold(order, st, ms, cs) ==
    IF order = <<>> THEN st
    ELSE TickFold(Tail(order), TickComponent(Head(order), st, ms, cs), ms, cs)

\* one Emulator::step with both CPUs continuing, seen from the event
\* channels
RecoveryTick ==
    /\ rec_phase = "built"
    /\ \E ms \in McuSends, cs \in CaliptraSends :
         /\ ms # "none" => Len(from_mcu) < MaxChan
         /\ cs # "none" => Len(from_caliptra) < MaxChan
         /\ LET st0 == [state |-> bmc_state, queue |-> bmc_queue,
                        cur |-> bmc_current, toC |-> to_caliptra,
                        fromC |-> from_caliptra, fromM |-> from_mcu,
                        obs |-> observed, bmc_took |-> FALSE,
                        bmc_same_tick |-> FALSE, cal_took |-> FALSE,
                        cal_same_tick |-> FALSE]
                st == TickFold(StepOrder("Continue", bmc_present), st0, ms, cs)
            IN  /\ bmc_state' = st.state
                /\ bmc_queue' = st.queue
                /\ bmc_current' = st.cur
                /\ to_caliptra' = Aged(st.toC)
                /\ from_caliptra' = Aged(st.fromC)
                /\ from_mcu' = Aged(st.fromM)
                /\ observed' = st.obs
                /\ rec_last' = [bmc_took |-> st.bmc_took,
                                bmc_same_tick |-> st.bmc_same_tick,
                                cal_took |-> st.cal_took,
                                cal_same_tick |-> st.cal_same_tick]
    /\ mcu_action' = "Continue"
    /\ caliptra_action' = "Continue"
    /\ tick_log' = StepOrder("Continue", bmc_present)
    /\ step_ret' = SystemAction("Continue", "Continue")
    /\ UNCHANGED <<pc, bmc_present, stdin_uart, poll_scheduled,
                   EMULATOR_TICKS>>
    /\ UNCHANGED <<rec_phase, flash_boot, new_log>>
    /\ UNCHANGED <<freeVars, gdbVars, sleepVars, extVars, picVars, doeVars, rrVars>>

InitRecSpec == InitIdle /\ InitPeriph

NextRec == EmulatorNew \/ RecoveryTick

SpecRec == InitRecSpec /\ [][NextRec]_vars

----------------------------------------------------------------------------
\* doe/driver.rs: DoeDriver

\* largest rx buffer of the transport, in dwords
MaxRxBufDw == 4

\* largest index a discovery request carries
MaxIndex == 3

\* protocol.rs constants
NUM_DATA_OBJECT_PROTOCOL_TYPES == 3
DOE_DISCOVERY_DATA_OBJECT_LEN_DW == 3
DOE_DATA_OBJECT_HEADER_LEN_DW == 2

\* DataObjectType::from(u8)
DataObjectTypeFrom(t) ==
    CASE t = 0 -> "DoeDiscovery"
      [] t = 1 -> "Spdm"
      [] t = 2 -> "SecureSpdm"
      [] OTHER -> "Unsupported"

\* DoeDataObjectHeader::validate(len)
HeaderValidate(hdr_len, len) == hdr_len = len

\* DoeTransport::transmit: single in-flight sender
TransportTransmit(busy, len_dw) ==
    IF busy THEN "BUSY" ELSE IF len_dw = 0 THEN "INVAL" ELSE "Ok"

\* byte lengths of the buffers an app allows for writing and for reading
TxLens == {0, 6, 12}
ReadBufBytes == {4, 16}

\* frames the transport delivers: len dwords, whether the header decodes,
\* the header's length field, the raw type, the discovery request index
Frame(len, ok, hl, t, i) ==
    [len |-> len, hdr_ok |-> ok, hdr_len |-> hl, type |-> t, index |-> i]

Frames ==
    {Frame(l, TRUE, l, 0, 0) : l \in {2, MaxRxBufDw + 1}}
    \cup {Frame(3, FALSE, 3, 0, 0)}
    \cup {Frame(3, TRUE, 4, 0, 0), Frame(4, TRUE, 3, 1, 0)}
    \cup {Frame(l, TRUE, l, 0, i) : l \in 3..MaxRxBufDw, i \in 0..MaxIndex}
    \cup {Frame(l, TRUE, l, t, 0) : l \in 3..MaxRxBufDw, t \in 1..3}

NoFrame == Frame(0, FALSE, 0, 0, 0)

DoeOp(op, app, num, ret, tx, up, rel, frame) ==
    [op |-> op, app |-> app, num |-> num, ret |-> ret, transmits |-> tx,
     upcalls |-> up, released |-> rel, frame |-> frame,
     owner_before |-> tx_owner,
     waiting_before |-> {a \in Apps : doe_apps[a].waiting_rx},
     read_len |-> 0]

\* if len < 3 || len > rx_buf.len()
ReceiveLenBadMin2(len, buf_len) == len < 2 \/ len > buf_len

ReceiveLenBad(len, buf_len) == len < 3 \/ len > buf_len

\* next_index of handle_doe_discovery
NextIndexNoWrap(p) == p + 1

NextIndex(p) == (p + 1) % NUM_DATA_OBJECT_PROTOCOL_TYPES

\* handle_doe_discovery: the transmit calls it makes
DiscoveryTransmits(index) ==
    IF DataObjectTypeFrom(index) = "Unsupported" THEN <<>>
    ELSE << [len_dw |-> DOE_DISCOVERY_DATA_OBJECT_LEN_DW,
             hdr_len |-> DOE_DISCOVERY_DATA_OBJECT_LEN_DW,
             data |-> <<index, NextIndex(index)>>,
             result |-> TransportTransmit(tx_busy,
                            DOE_DISCOVERY_DATA_OBJECT_LEN_DW)] >>

\* handle_spdm_upcall, as if it announced the object to every app whether
\* or not the app had a receive command outstanding
RECURSIVE SpdmUpcallsToAll(_, _, _)
SpdmUpcallsToAll(apps, rlen, len_dw) ==
    IF apps = {} THEN <<>>
    ELSE LET a == CHOOSE x \in apps : \A y \in apps : x <= y
             copy_len_dw == IF rlen \div 4 < len_dw THEN rlen \div 4
                            ELSE len_dw
         IN  << [app |-> a, upcall |-> "MESSAGE_RECEIVED",
                 arg |-> copy_len_dw * 4] >>
             \o SpdmUpcallsToAll(apps \ {a}, rlen, len_dw)

\* handle_spdm_upcall: the upcalls it schedules, in app order
RECURSIVE SpdmUpcalls(_, _, _)
SpdmUpcalls(apps, rlen, len_dw) ==
    IF apps = {} THEN <<>>
    ELSE LET a == CHOOSE x \in apps : \A y \in apps : x <= y
             copy_len_dw == IF rlen \div 4 < len_dw THEN rlen \div 4
                            ELSE len_dw
         IN  (IF doe_apps[a].waiting_rx
              THEN << [app |-> a, upcall |-> "MESSAGE_RECEIVED",
                       arg |-> copy_len_dw * 4] >>
              ELSE <<>>)
             \o SpdmUpcalls(apps \ {a}, rlen, len_dw)

\* SyscallDriver::command
DoeCommand ==
    /\ \E app \in Apps, num \in 0..4, tx_len \in TxLens, allow_ok \in BOOLEAN :
         CASE num = 0 ->
                /\ doe_last' = DoeOp("command", app, num, "Ok", <<>>, <<>>, 0,
                                     NoFrame)
                /\ UNCHANGED <<doe_apps, current_app, tx_busy, tx_owner>>
           [] num = 1 ->
                /\ doe_apps' = [doe_apps EXCEPT ![app].waiting_rx = TRUE]
                /\ doe_last' = DoeOp("command", app, num, "Ok", <<>>, <<>>, 0,
                                     NoFrame)
                /\ UNCHANGED <<current_app, tx_busy, tx_owner>>
           [] num = 2 ->
                IF doe_apps[app].pending_tx
                THEN /\ doe_last' = DoeOp("command", app, num, "BUSY", <<>>,
                                          <<>>, 0, NoFrame)
                     /\ UNCHANGED <<doe_apps, current_app, tx_busy, tx_owner>>
                ELSE \* send_app_data
                     /\ current_app' = app
                     /\ IF ~allow_ok
                        THEN /\ doe_last' = DoeOp("command", app, num, "INVAL",
                                                  <<>>, <<>>, 0, NoFrame)
                             /\ UNCHANGED <<doe_apps, tx_busy, tx_owner>>
                        ELSE LET tx == IF tx_len % 4 # 0 THEN <<>>
                                       ELSE << [len_dw |-> tx_len \div 4,
                                                hdr_len |-> tx_len \div 4,
                                                data |-> <<>>,
                                                result |->
                                                  TransportTransmit(tx_busy,
                                                      tx_len \div 4)] >>
                             IN  /\ tx_busy' = (tx_busy \/
                                      (tx # <<>> /\ tx[1].result = "Ok"))
                                 /\ doe_apps' = [doe_apps EXCEPT
                                                   ![app].pending_tx = TRUE]
                                 /\ tx_owner' = IF tx # <<>> /\ tx[1].result = "Ok"
                                                THEN app
                                                ELSE tx_owner
                                 /\ doe_last' = DoeOp("command", app, num,
                                                      "Ok", tx, <<>>, 0,
                                                      NoFrame)
           [] num = 3 ->
                /\ doe_last' = DoeOp("command", app, num, "Ok", <<>>, <<>>, 0,
                                     NoFrame)
                /\ UNCHANGED <<doe_apps, current_app, tx_busy, tx_owner>>
           [] OTHER ->
                /\ doe_last' = DoeOp("command", app, num, "NOSUPPORT", <<>>,
                                     <<>>, 0, NoFrame)
                /\ UNCHANGED <<doe_apps, current_app, tx_busy, tx_owner>>
    /\ UNCHANGED <<emuVars, freeVars, gdbVars, sleepVars, extVars, picVars, recVars,
                   rrVars>>

\* the branch of receive a delivered frame takes
ReceivePath(f) ==
    IF ReceiveLenBad(f.len, MaxRxBufDw) THEN "invalid_length"
    ELSE IF ~f.hdr_ok THEN "decode"
    ELSE IF ~HeaderValidate(f.hdr_len, f.len) THEN "validate"
    ELSE CASE DataObjectTypeFrom(f.type) = "DoeDiscovery" -> "discovery"
           [] DataObjectTypeFrom(f.type) \in {"Spdm", "SecureSpdm"} -> "spdm"
           [] OTHER -> "unsupported"

\* set_rx_buffer calls on a branch of receive, as if receive handed the
\* buffer back again after handle_spdm_upcall had done so
SetRxBufferCallsSpdmTwice(path) ==
    IF path = "spdm" THEN 2 ELSE 1

\* set_rx_buffer calls on a branch of receive: the early returns, the
\* discovery arm and the unsupported arm call it themselves, the Spdm arm
\* leaves it to handle_spdm_upcall, which calls it after apps.each
SetRxBufferCalls(path) ==
    CASE path \in {"invalid_length", "decode", "validate"} -> 1
      [] path = "discovery" -> 1
      [] path = "spdm" -> 1
      [] OTHER -> 1

\* DoeTransportRxClient::receive
DoeReceive ==
    /\ \E f \in Frames, rlen \in ReadBufBytes :
         IF ReceiveLenBad(f.len, MaxRxBufDw) \/ ~f.hdr_ok
            \/ ~HeaderValidate(f.hdr_len, f.len)
         THEN /\ doe_last' = DoeOp("receive", 0, 0, "Ok", <<>>, <<>>,
                                   SetRxBufferCalls(ReceivePath(f)), f)
              /\ UNCHANGED <<doe_apps, tx_busy>>
         ELSE CASE DataObjectTypeFrom(f.type) = "DoeDiscovery" ->
                     /\ doe_last' = DoeOp("receive", 0, 0, "Ok",
                                          DiscoveryTransmits(f.index), <<>>,
                                          SetRxBufferCalls(ReceivePath(f)), f)
                     /\ tx_busy' = (tx_busy \/
                           DataObjectTypeFrom(f.index) # "Unsupported")
                     /\ UNCHANGED doe_apps
                [] DataObjectTypeFrom(f.type) \in {"Spdm", "SecureSpdm"} ->
                     /\ doe_last' = [DoeOp("receive", 0, 0, "Ok", <<>>,
                                           SpdmUpcalls(Apps, rlen, f.len),
                                           SetRxBufferCalls(ReceivePath(f)),
                                           f)
                                     EXCEPT !.read_len = rlen]
                     /\ doe_apps' = [a \in Apps |->
                                       [doe_apps[a] EXCEPT !.waiting_rx = FALSE]]
                     /\ UNCHANGED tx_busy
                [] OTHER ->
                     /\ doe_last' = DoeOp("receive", 0, 0, "Ok", <<>>, <<>>,
                                          SetRxBufferCalls(ReceivePath(f)), f)
                     /\ UNCHANGED <<doe_apps, tx_busy>>
    /\ UNCHANGED <<current_app, tx_owner>>
    /\ UNCHANGED <<emuVars, freeVars, gdbVars, sleepVars, extVars, picVars, recVars,
                   rrVars>>

\* DoeTransportTxClient::send_done, called by the transport when the
\* transmission in flight ends
DoeSendDone ==
    /\ tx_busy
    /\ \E ok \in BOOLEAN :
         IF current_app # 0
         THEN /\ doe_apps' = [doe_apps EXCEPT ![current_app].pending_tx = FALSE]
              /\ doe_last' = DoeOp("send_done", current_app, 0, "Ok", <<>>,
                                   << [app |-> current_app,
                                       upcall |-> "MESSAGE_TRANSMITTED",
                                       arg |-> IF ok THEN 1 ELSE 0] >>,
                                   0, NoFrame)
         ELSE /\ doe_last' = DoeOp("send_done", 0, 0, "Ok", <<>>, <<>>, 0,
                                   NoFrame)
              /\ UNCHANGED doe_apps
    /\ tx_busy' = FALSE
    /\ tx_owner' = 0
    /\ UNCHANGED current_app
    /\ UNCHANGED <<emuVars, freeVars, gdbVars, sleepVars, extVars, picVars, recVars,
                   rrVars>>

InitDoeSpec == InitIdle /\ InitPeriph

NextDoe == DoeCommand \/ DoeReceive \/ DoeSendDone

SpecDoe == InitDoeSpec /\ [][NextDoe]_vars

\* the transport reports the end of every transmission it accepted, and
\* the kernel keeps dispatching commands and received objects to the driver
SpecDoeFair ==
    InitDoeSpec /\ [][NextDoe]_vars /\ WF_vars(DoeSendDone) /\ WF_vars(NextDoe)

----------------------------------------------------------------------------
\* lib.rs: sleep_emulator_ticks; cbinding lib.rs: trigger_exit_request

\* largest ticks argument of sleep_emulator_ticks
MaxWait == 1

\* trigger_exit_request: clears the library's EMULATOR_RUNNING
TriggerExitRequest ==
    /\ LIB_EMULATOR_RUNNING' = FALSE
    /\ UNCHANGED <<sleep_pc, sleep_wait, sleep_start, sleep_steps>>
    /\ UNCHANGED <<emuVars, freeVars, gdbVars, periphVars>>

\* the main binary with a stdin UART, and a host that may request exit
InitExit ==
    /\ InitFree
    /\ stdin_uart = <<>>
    /\ pc = 0

NextExit == FreeRunIter \/ ReadConsoleIter \/ CtrlC \/ TriggerExitRequest

SpecExit == InitExit /\ [][NextExit]_vars

\* sleep_emulator_ticks(ticks): wait and start are taken at the call
SleepCall ==
    /\ sleep_pc \in {"idle", "returned"}
    /\ \E ticks \in 0..MaxWait : sleep_wait' = ticks
    /\ sleep_start' = EMULATOR_TICKS
    /\ sleep_steps' = stepCalls
    /\ sleep_pc' = "entry"
    /\ UNCHANGED LIB_EMULATOR_RUNNING
    /\ UNCHANGED <<emuVars, freeVars, gdbVars, periphVars>>

\* break test of the while loop: now - start >= wait
SleepElapsed(now, start, wait) == now - start >= wait

\* the while test and the body up to wait_timeout
SleepPoll ==
    /\ sleep_pc \in {"entry", "loop"}
    /\ sleep_pc' = IF ~LIB_EMULATOR_RUNNING THEN "returned"
                   ELSE IF SleepElapsed(EMULATOR_TICKS, sleep_start, sleep_wait)
                   THEN "returned"
                   ELSE "wait"
    /\ UNCHANGED <<LIB_EMULATOR_RUNNING, sleep_wait, sleep_start, sleep_steps>>
    /\ UNCHANGED <<emuVars, freeVars, gdbVars, periphVars>>

\* TICK_COND.wait_timeout returns: notified, or one second has passed
SleepWake ==
    /\ sleep_pc = "wait"
    /\ sleep_pc' = "loop"
    /\ UNCHANGED <<LIB_EMULATOR_RUNNING, sleep_wait, sleep_start, sleep_steps>>
    /\ UNCHANGED <<emuVars, freeVars, gdbVars, periphVars>>

\* a stepping emulator without a stdin UART, and a thread that sleeps
InitSleepSpec ==
    /\ InitFree
    /\ stdin_uart = NoUart
    /\ bmc_present
    /\ pc = 0

NextSleep ==
    FreeRunIter \/ CtrlC \/ TriggerExitRequest \/ SleepCall \/ SleepPoll
    \/ SleepWake

SpecSleep == InitSleepSpec /\ [][NextSleep]_vars

----------------------------------------------------------------------------
\* reset_reason.rs: ResetReasonEmulator

\* value at which the count of warm resets since power-down saturates
MaxResets == 2

\* the low four bits of the u32 register: FW_HITLESS_UPD_RESET (bit 0),
\* FW_BOOT_UPD_RESET (bit 1), WARM_RESET (bit 2) and one bit beyond them
RegValues == 0..15

Bit(v, k) == (v \div (2 ^ k)) % 2

\* reg.modify(ResetReason::WarmReset::SET)
SetWarmReset(v) == IF Bit(v, 2) = 1 THEN v ELSE v + 4

\* reg.modify(FwBootUpdReset::CLEAR + FwHitlessUpdReset::CLEAR)
ClearFwUpdBitsBootOnly(v) == v - 2 * Bit(v, 1)

ClearFwUpdBits(v) == v - (v % 4)

\* if self.pwrgood && self.first_mci_reset_captured
WarmResetLatchesOnPower(pwrgood, captured) == pwrgood

WarmResetLatches(pwrgood, captured) == pwrgood /\ captured

RrOp(op) ==
    [op |-> op, before |-> rr_value, pwrgood |-> rr_pwrgood,
     resets |-> rr_resets, cycle |-> rr_cycle]

\* set(value): software write
ResetReasonSet ==
    /\ \E v \in RegValues : rr_value' = v
    /\ rr_last' = RrOp("set")
    /\ UNCHANGED <<rr_pwrgood, rr_captured, rr_resets, rr_cycle>>
    /\ UNCHANGED <<emuVars, freeVars, gdbVars, sleepVars, extVars, picVars, recVars,
                   doeVars>>

HandlePowerDown ==
    /\ rr_pwrgood' = FALSE
    /\ rr_value' = 0
    /\ rr_captured' = FALSE
    /\ rr_resets' = 0
    /\ rr_cycle' = "down"
    /\ rr_last' = RrOp("handle_power_down")
    /\ UNCHANGED <<emuVars, freeVars, gdbVars, sleepVars, extVars, picVars, recVars,
                   doeVars>>

HandlePowerUp ==
    /\ rr_pwrgood' = TRUE
    /\ rr_cycle' = IF rr_cycle = "down" THEN "up" ELSE rr_cycle
    /\ rr_last' = RrOp("handle_power_up")
    /\ UNCHANGED <<rr_value, rr_captured, rr_resets>>
    /\ UNCHANGED <<emuVars, freeVars, gdbVars, sleepVars, extVars, picVars, recVars,
                   doeVars>>

HandleWarmReset ==
    /\ rr_value' = ClearFwUpdBits(IF WarmResetLatches(rr_pwrgood, rr_captured)
                                  THEN SetWarmReset(rr_value)
                                  ELSE rr_value)
    /\ rr_captured' = TRUE
    /\ rr_resets' = IF rr_resets < MaxResets THEN rr_resets + 1 ELSE rr_resets
    /\ rr_cycle' = IF rr_cycle = "up" THEN "reset" ELSE rr_cycle
    /\ rr_last' = RrOp("handle_warm_reset")
    /\ UNCHANGED rr_pwrgood
    /\ UNCHANGED <<emuVars, freeVars, gdbVars, sleepVars, extVars, picVars, recVars,
                   doeVars>>

\* Emulator::step between the events of the reset-reason register: no
\* code under step reaches ResetReasonEmulator
ResetReasonStep ==
    /\ \E m \in StepActions, npc \in Addrs, c \in CaliptraActions,
          rx \in RxReads : EmulatorStep(m, npc, c, rx)
    /\ UNCHANGED <<freeVars, gdbVars, sleepVars, periphVars>>

InitResetSpec == InitIdle /\ InitPeriph

NextReset ==
    \/ ResetReasonSet
    \/ HandlePowerDown
    \/ HandlePowerUp
    \/ HandleWarmReset
    \/ ResetReasonStep

SpecReset == InitResetSpec /\ [][NextReset]_vars

----------------------------------------------------------------------------
\* main.rs run() and the UART capture vector

\* bytes the guest writes to the UART TX register
TxBytes == {65, 66}

\* what one mcu_cpu.step writes to the TX register: nothing or one byte
TxWrites == {<<>>} \cup {<<b>> : b \in TxBytes}

\* the UART appends a written byte to the capture vector when there is one
UartTxWrite(out, w) == IF out = NoCapture THEN NoCapture ELSE out \o w

\* Emulator::get_uart_output: a copy of the vector as it is at the call
GetUartOutput(out) == out

\* Option::<Vec<u8>>::unwrap_or_default
UnwrapOrDefault(o) == IF o = NoCapture THEN <<>> ELSE o

\* run() up to the call of free_run: Emulator::new creates the capture
\* vector, then run() keeps what get_uart_output returns in a local
RunNew ==
    /\ run_pc = "start"
    /\ \E c \in BOOLEAN :
         /\ capture_uart_output' = c
         /\ uart_output' = IF c THEN <<>> ELSE NoCapture
    /\ run_uart_output' = GetUartOutput(uart_output')
    /\ run_pc' = "free_run"
    /\ UNCHANGED <<run_ret, uart_tx_written>>
    /\ UNCHANGED <<emuVars, freeVars, gdbVars, sleepVars, picVars, recVars,
                   doeVars, rrVars, besideRun>>

\* one iteration of free_run inside run(); the guest may write a byte to the
\* TX register in the step it makes
RunFreeRunIter ==
    /\ run_pc = "free_run"
    /\ FreeRunLoop
    /\ \E w \in (IF running THEN TxWrites ELSE {<<>>}) :
         /\ uart_output' = UartTxWrite(uart_output, w)
         /\ uart_tx_written' = uart_tx_written \o w
    /\ UNCHANGED <<run_pc, capture_uart_output, run_uart_output, run_ret>>
    /\ UNCHANGED <<picVars, recVars, doeVars, rrVars, besideRun>>

\* free_run returned: run() returns Ok(uart_output.unwrap_or_default())
RunReturn ==
    /\ run_pc = "free_run"
    /\ free_run_pc = "done"
    /\ run_ret' = UnwrapOrDefault(run_uart_output)
    /\ run_pc' = "returned"
    /\ UNCHANGED <<capture_uart_output, uart_output, run_uart_output,
                   uart_tx_written>>
    /\ UNCHANGED <<emuVars, freeVars, gdbVars, sleepVars, picVars, recVars,
                   doeVars, rrVars, besideRun>>

NextRun == RunNew \/ RunFreeRunIter \/ RunReturn \/ CtrlC

SpecRun == InitFree /\ [][NextRun]_vars

----------------------------------------------------------------------------
\* the stdin mailbox between read_console and the step loop

\* read_console reads no further key once this many bytes were typed
MaxTyped == 3

\* read_console's iteration, with the bytes it moves recorded
MailReadConsoleIter ==
    /\ Len(typed) < MaxTyped
    /\ ReadConsoleLoop
    /\ typed' = IF buffer = <<>> THEN typed \o buffer' ELSE typed
    /\ slotted' = IF buffer # <<>> /\ buffer' # buffer
                  THEN slotted \o <<Head(buffer)>> ELSE slotted
    /\ UNCHANGED taken
    /\ UNCHANGED <<pc, mcu_action, caliptra_action, bmc_present, tick_log,
                   step_ret, poll_scheduled, EMULATOR_TICKS>>
    /\ UNCHANGED <<running, EMULATOR_RUNNING, free_run_pc, stepCalls, gdbVars,
                   sleepVars, picVars, recVars, doeVars, rrVars, besideMail>>

\* free_run's iteration, with the byte the guest takes out of the slot
\* recorded
MailFreeRunIter ==
    /\ FreeRunLoop
    /\ taken' = IF stdin_uart # NoUart /\ stdin_uart' = <<>>
                   THEN taken \o stdin_uart ELSE taken
    /\ UNCHANGED <<typed, slotted>>
    /\ UNCHANGED <<picVars, recVars, doeVars, rrVars, besideMail>>

InitMailSpec == InitFree /\ stdin_uart = <<>>

NextMail == MailReadConsoleIter \/ MailFreeRunIter \/ CtrlC

SpecMail == InitMailSpec /\ [][NextMail]_vars

----------------------------------------------------------------------------
\* emulator.rs build_bus_system and the memory map it starts from

\* override options given on one command line
MaxOverrides == 1

\* EMULATOR_MEMORY_MAP, in units of four bytes (every offset and size of the
\* map is a multiple of four): 0xHHHH_LLLL is HHHH * 16384 + LLLL / 4
EMULATOR_MEMORY_MAP ==
    [f \in Fields |->
        CASE f = <<"rom", "offset">> -> 32768 * 16384     \* 0x8000_0000
          [] f = <<"rom", "size">> -> (32 * 1024) \div 4
          [] f = <<"dccm", "offset">> -> 20480 * 16384    \* 0x5000_0000
          [] f = <<"dccm", "size">> -> (16 * 1024) \div 4
          [] f = <<"sram", "offset">> -> 16384 * 16384    \* 0x4000_0000
          [] f = <<"sram", "size">> -> (512 * 1024) \div 4
          [] f = <<"i3c", "offset">> -> 8192 * 16384 + 4096  \* 0x2000_4000
          [] f = <<"i3c", "size">> -> 1024                \* 0x1000
          [] f = <<"mci", "offset">> -> 8448 * 16384      \* 0x2100_0000
          [] f = <<"mci", "size">> -> 224 * 16384         \* 0xe0_0000
          [] f = <<"mbox", "offset">> -> 12290 * 16384    \* 0x3002_0000
          [] f = <<"mbox", "size">> -> 10                 \* 0x28
          [] f = <<"soc", "offset">> -> 12291 * 16384     \* 0x3003_0000
          [] f = <<"soc", "size">> -> 376                 \* 0x5e0
          [] f = <<"otp", "offset">> -> 28672 * 16384     \* 0x7000_0000
          [] f = <<"otp", "size">> -> 80                  \* 0x140
          [] f = <<"lc", "offset">> -> 28672 * 16384 + 256   \* 0x7000_0400
          [] f = <<"lc", "size">> -> 35]                  \* 0x8c

\* values an override option is given: the SRAM offset, the MCI offset, and a
\* small one
OverrideValues ==
    {EMULATOR_MEMORY_MAP[<<"sram", "offset">>],
     EMULATOR_MEMORY_MAP[<<"mci", "offset">>], 16}

\* the extents of two regions of a map share an address
Overlap(map, r1, r2) ==
    /\ map[<<r1, "offset">>] < map[<<r2, "offset">>] + map[<<r2, "size">>]
    /\ map[<<r2, "offset">>] < map[<<r1, "offset">>] + map[<<r1, "size">>]

Disjoint(map) ==
    \A r1, r2 \in Regions : r1 # r2 => ~Overlap(map, r1, r2)

\* "Apply CLI overrides to offsets": only cli.rom_offset is looked at
ApplyCliOverrides(default, cli) ==
    [f \in Fields |->
        IF f = <<"rom", "offset">> /\ cli[f] # NoOverride
        THEN cli[f] ELSE default[f]]

\* McuRootBus::new(bus_args): a map whose regions overlap is refused
RootBusNew(offsets) == Disjoint(offsets)

\* one --<region>-offset / --<region>-size option parsed into EmulatorArgs
ParseOverride ==
    /\ map_pc = "start"
    /\ Cardinality({f \in Fields : map_cli[f] # NoOverride}) < MaxOverrides
    /\ \E f \in Fields, v \in OverrideValues :
         /\ map_cli[f] = NoOverride
         /\ map_cli' = [map_cli EXCEPT ![f] = v]
    /\ UNCHANGED <<map_pc, map_built>>
    /\ UNCHANGED <<emuVars, freeVars, gdbVars, sleepVars, picVars, recVars,
                   doeVars, rrVars, besideMap>>

\* build_bus_system: the ROM image must fit, the offsets are the defaults
\* with the overrides applied, and the root bus is built from them
BuildBusSystem ==
    /\ map_pc = "start"
    /\ \E rom_fits \in BOOLEAN :
         LET offsets == ApplyCliOverrides(EMULATOR_MEMORY_MAP, map_cli)
         IN  IF rom_fits /\ RootBusNew(offsets)
             THEN map_pc' = "built" /\ map_built' = offsets
             ELSE map_pc' = "rejected" /\ UNCHANGED map_built
    /\ UNCHANGED map_cli
    /\ UNCHANGED <<emuVars, freeVars, gdbVars, sleepVars, picVars, recVars,
                   doeVars, rrVars, besideMap>>

\* the first Emulator::step of the system that was built
MapFirstStep ==
    /\ map_pc = "built"
    /\ \E m \in StepActions, npc \in Addrs, c \in CaliptraActions,
          rx \in RxReads : EmulatorStep(m, npc, c, rx)
    /\ map_pc' = "stepped"
    /\ UNCHANGED <<map_cli, map_built>>
    /\ UNCHANGED <<freeVars, gdbVars, sleepVars, picVars, recVars, doeVars,
                   rrVars, besideMap>>

InitMapSpec == InitIdle /\ InitPeriph

NextMap == ParseOverride \/ BuildBusSystem \/ MapFirstStep

SpecMap == InitMapSpec /\ [][NextMap]_vars

----------------------------------------------------------------------------
\* builder/src/all.rs: the firmware bundle

\* longest file packed
MaxDataLen == 1

\* bytes of the packed files
DataBytes == {0, 1}

\* contents of a file
Datas == UNION {[1..n -> DataBytes] : n \in 0..MaxDataLen}

\* length of the run of equal bytes a non-empty sequence starts with
RunLen(d) ==
    CHOOSE n \in 1..Len(d) :
        /\ \A i \in 1..n : d[i] = d[1]
        /\ n = Len(d) \/ d[n + 1] # d[1]

\* CompressionMethod::Deflated, as run lengths: <<count, byte, count, byte, ..>>
RECURSIVE Deflate(_)
Deflate(d) ==
    IF d = <<>> THEN <<>>
    ELSE <<RunLen(d), d[1]>> \o Deflate(SubSeq(d, RunLen(d) + 1, Len(d)))

\* file.read_to_end of a stored entry
RECURSIVE Inflate(_)
Inflate(z) ==
    IF z = <<>> THEN <<>>
    ELSE [i \in 1..z[1] |-> z[2]] \o Inflate(SubSeq(z, 3, Len(z)))

\* add_to_zip: the entry appended for a file
AddToZip(archive, name, data) ==
    Append(archive, [name |-> name, data |-> Deflate(data)])

FieldOfNameOtherIsManifest(name) ==
    CASE name = "caliptra_rom.bin" -> "caliptra_rom"
      [] name = "caliptra_fw.bin" -> "caliptra_fw"
      [] name = "mcu_rom.bin" -> "mcu_rom"
      [] name = "mcu_runtime.bin" -> "mcu_runtime"
      [] OTHER -> "soc_manifest"

\* match name.as_str() of read_from_zip: the field an entry is stored in
FieldOfName(name) ==
    CASE name = "caliptra_rom.bin" -> "caliptra_rom"
      [] name = "caliptra_fw.bin" -> "caliptra_fw"
      [] name = "mcu_rom.bin" -> "mcu_rom"
      [] name = "mcu_runtime.bin" -> "mcu_runtime"
      [] name = "soc_manifest.bin" -> "soc_manifest"
      [] OTHER -> "none"

\* for i in 0..zip.len(): the binaries after the first n entries
RECURSIVE ReadEntries(_, _)
ReadEntries(archive, n) ==
    IF n = 0 THEN DefaultBinaries
    ELSE LET binaries == ReadEntries(archive, n - 1)
             data == Inflate(archive[n].data)
             field == FieldOfName(archive[n].name)
         IN  IF field = "none" THEN binaries
             ELSE [binaries EXCEPT ![field] = data]

\* all_build: the five files are packed in the order of EntryNames
AllBuild ==
    /\ zip_pc = "start"
    /\ \E files \in [1..5 -> Datas] :
         /\ zip_files' = files
         /\ zip_archive' =
              AddToZip(AddToZip(AddToZip(AddToZip(AddToZip(<<>>,
                  EntryNames[1], files[1]), EntryNames[2], files[2]),
                  EntryNames[3], files[3]), EntryNames[4], files[4]),
                  EntryNames[5], files[5])
    /\ zip_pc' = "written"
    /\ UNCHANGED zip_binaries
    /\ UNCHANGED <<emuVars, freeVars, gdbVars, sleepVars, picVars, recVars,
                   doeVars, rrVars, besideZip>>

\* another tool puts an entry of its own at the front or at the end of the
\* bundle
ZipAddOther ==
    /\ zip_pc = "written"
    /\ Len(zip_archive) = 5
    /\ \E data \in Datas, front \in BOOLEAN :
         LET e == [name |-> "README", data |-> Deflate(data)]
         IN  zip_archive' = IF front THEN <<e>> \o zip_archive
                            ELSE Append(zip_archive, e)
    /\ UNCHANGED <<zip_pc, zip_files, zip_binaries>>
    /\ UNCHANGED <<emuVars, freeVars, gdbVars, sleepVars, picVars, recVars,
                   doeVars, rrVars, besideZip>>

\* FirmwareBinaries::read_from_zip
ReadFromZip ==
    /\ zip_pc = "written"
    /\ zip_binaries' = ReadEntries(zip_archive, Len(zip_archive))
    /\ zip_pc' = "read"
    /\ UNCHANGED <<zip_files, zip_archive>>
    /\ UNCHANGED <<emuVars, freeVars, gdbVars, sleepVars, picVars, recVars,
                   doeVars, rrVars, besideZip>>

InitZipSpec == InitIdle /\ InitPeriph

NextZip == AllBuild \/ ZipAddOther \/ ReadFromZip

SpecZip == InitZipSpec /\ [][NextZip]_vars

----------------------------------------------------------------------------
\* external_shim.rs: Shim

\* largest value a callback writes or a store carries
MaxShimVal == 1

ShimVals == 0..MaxShimVal

ShimReadRetOkWithoutCallback(installed, cb_ret) ==
    IF installed /\ ~cb_ret THEN "LoadAccessFault" ELSE "Ok"

\* what Shim::read returns
ShimReadRet(installed, cb_ret) ==
    IF installed
    THEN IF cb_ret THEN "Ok" ELSE "LoadAccessFault"
    ELSE "LoadAccessFault"

\* what Shim::write returns
ShimWriteRet(installed, cb_ret) ==
    IF installed
    THEN IF cb_ret THEN "Ok" ELSE "StoreAccessFault"
    ELSE "StoreAccessFault"

\* Shim::set_read_callback
SetReadCallback ==
    /\ read_callback' = TRUE
    /\ shim_last' = [NoShimAccess EXCEPT !.op = "set_read_callback"]
    /\ UNCHANGED write_callback
    /\ UNCHANGED <<emuVars, freeVars, gdbVars, sleepVars, picVars, recVars,
                   doeVars, rrVars, besideShim>>

\* Shim::set_write_callback
SetWriteCallback ==
    /\ write_callback' = TRUE
    /\ shim_last' = [NoShimAccess EXCEPT !.op = "set_write_callback"]
    /\ UNCHANGED read_callback
    /\ UNCHANGED <<emuVars, freeVars, gdbVars, sleepVars, picVars, recVars,
                   doeVars, rrVars, besideShim>>

\* Shim::read.  cb_ret and wrote are what the callback does when it is
\* called: its return value and the value it stores through the &mut u32
\* (<<>> when it stores nothing).
ShimRead ==
    /\ \E size \in RvSizes, addr \in Addrs, cb_ret \in BOOLEAN,
          wrote \in {<<>>} \cup {<<v>> : v \in ShimVals} :
         LET calls == IF read_callback THEN <<"read_callback">> ELSE <<>>
             filled == IF read_callback /\ wrote # <<>> THEN wrote[1] ELSE 0
             ret == ShimReadRet(read_callback, cb_ret)
         IN  shim_last' =
               [op |-> "read", size |-> size, addr |-> addr, value |-> 0,
                installed |-> read_callback, calls |-> calls,
                cb_ret |-> cb_ret, buffer |-> filled, ret |-> ret,
                data |-> IF ret = "Ok" THEN filled ELSE 0]
    /\ UNCHANGED <<read_callback, write_callback>>
    /\ UNCHANGED <<emuVars, freeVars, gdbVars, sleepVars, picVars, recVars,
                   doeVars, rrVars, besideShim>>

\* Shim::write
ShimWrite ==
    /\ \E size \in RvSizes, addr \in Addrs, value \in ShimVals,
          cb_ret \in BOOLEAN :
         LET calls == IF write_callback THEN <<"write_callback">> ELSE <<>>
         IN  shim_last' =
               [op |-> "write", size |-> size, addr |-> addr,
                value |-> value, installed |-> write_callback,
                calls |-> calls, cb_ret |-> cb_ret, buffer |-> 0,
                ret |-> ShimWriteRet(write_callback, cb_ret), data |-> 0]
    /\ UNCHANGED <<read_callback, write_callback>>
    /\ UNCHANGED <<emuVars, freeVars, gdbVars, sleepVars, picVars, recVars,
                   doeVars, rrVars, besideShim>>

InitShimSpec == InitIdle /\ InitPeriph

NextShim == SetReadCallback \/ SetWriteCallback \/ ShimRead \/ ShimWrite

SpecShim == InitShimSpec /\ [][NextShim]_vars

----------------------------------------------------------------------------
\* gdb_target.rs: read_addrs / write_addrs, against the PIC's registers

\* the size read_addrs and write_addrs pass to read_bus / write_bus
DebugAccessSize == "Byte"

\* PIC addresses the debugger starts at: meipl[0], a hole, meip[0]
MemStarts == {0, 1024, 4096}

\* bytes asked for: up to one word, so an access stays inside one register
MemLens == 1..4

\* 256 to the power k, for k in 0..3
Pow256(k) == CASE k = 0 -> 1 [] k = 1 -> 256 [] k = 2 -> 65536 [] OTHER -> 16777216

\* the byte at address addr of the word-wide registers (little endian);
\* an address that selects no register holds 0
ByteAt(regs, addr) ==
    IF PicReadTarget(addr)[1] = "none" THEN 0
    ELSE (regs[PicReadTarget(addr)] \div Pow256(addr % 4)) % 256

\* mcu_cpu.read_bus(size, addr).unwrap_or_default() as u8 on the PIC bus
ReadBusOrDefault(regs, size, addr) ==
    IF PicMisaligned(size, addr) \/ PicReadTarget(addr)[1] = "none"
    THEN 0
    ELSE regs[PicReadTarget(addr)] % 256

\* mcu_cpu.write_bus(size, addr, val).unwrap_or_default() on the PIC bus:
\* the registers afterwards
WriteBusOrDefault(regs, size, addr, val) ==
    IF PicMisaligned(size, addr) \/ PicWriteTarget(addr)[1] = "none"
    THEN regs
    ELSE [regs EXCEPT ![PicWriteTarget(addr)] = val]

\* for i in 0..data.len() of write_addrs: the registers after the first n bytes
RECURSIVE WriteLoop(_, _, _, _)
WriteLoop(regs, start, data, n) ==
    IF n = 0 THEN regs
    ELSE WriteBusOrDefault(WriteLoop(regs, start, data, n - 1),
                           DebugAccessSize, start + n - 1, data[n])

\* a store word of the guest to the PIC
MemGuestStore ==
    /\ \E addr \in MemStarts, val \in 0..MaxPicVal :
         El2PicBusWrite("Word", addr, val)
    /\ UNCHANGED <<emuVars, freeVars, gdbVars, sleepVars, extVars, recVars,
                   doeVars, rrVars>>

\* GdbTarget::read_addrs
GdbReadAddrs ==
    /\ \E start \in MemStarts, len \in MemLens :
         mem_last' =
            [op |-> "read_addrs", start |-> start,
             sizes |-> [i \in 1..len |-> DebugAccessSize],
             data |-> [i \in 1..len |->
                         ReadBusOrDefault(pic_regs, DebugAccessSize,
                                          start + i - 1)],
             before |-> [i \in 1..len |-> ByteAt(pic_regs, start + i - 1)]]
    /\ UNCHANGED <<emuVars, freeVars, gdbVars, sleepVars, picVars, recVars,
                   doeVars, rrVars, besideMem>>

\* GdbTarget::write_addrs
GdbWriteAddrs ==
    /\ \E start \in MemStarts, len \in MemLens :
         \E data \in [1..len -> 0..MaxPicVal] :
            /\ mem_last' =
                 [op |-> "write_addrs", start |-> start,
                  sizes |-> [i \in 1..len |-> DebugAccessSize],
                  data |-> data,
                  before |-> [i \in 1..len |->
                                ByteAt(pic_regs, start + i - 1)]]
            /\ pic_regs' = WriteLoop(pic_regs, start, data, len)
    /\ UNCHANGED pic_last
    /\ UNCHANGED <<emuVars, freeVars, gdbVars, sleepVars, recVars, doeVars,
                   rrVars, besideMem>>

InitMemSpec == InitIdle /\ InitPeriph

NextMem == MemGuestStore \/ GdbReadAddrs \/ GdbWriteAddrs

SpecMem == InitMemSpec /\ [][NextMem]_vars

----------------------------------------------------------------------------
\* rom/src/cold_boot.rs: ColdBoot::run against Caliptra's status flags

BootRunning ==
    boot_pc \notin {"reset", "fatal", "halt", "exit", "panic", "firmware"}

\* crate::fatal_error: it never returns (it stands where run needs a value
\* of type Fuses, and run itself returns !)
FatalError(code) == boot_pc' = "fatal" /\ boot_code' = code

\* the register writes between the two ready_for_fuses loops, as if the
\* fuses were populated before the TRNG user is set and locked
FuseWriteEventsEarlyPopulate ==
    <<"set_mbox_axi_user", "lock_mbox_axi_user", "set_fuse_axi_user",
      "lock_fuse_axi_user", "populate_fuses", "set_trng_axi_user",
      "lock_trng_axi_user", "set_dma_axi_user", "fuse_write_done">>

\* the register writes between the two ready_for_fuses loops, in order
FuseWriteEvents ==
    <<"set_mbox_axi_user", "lock_mbox_axi_user", "set_fuse_axi_user",
      "lock_fuse_axi_user", "set_trng_axi_user", "lock_trng_axi_user",
      "set_dma_axi_user", "populate_fuses", "fuse_write_done">>

\* the check of the first SRAM word, as if any word were accepted
FirmwareInvalidNever(word) == FALSE

\* read_volatile(firmware_ptr) == 0
FirmwareInvalid(word) == word = 0

\* Caliptra, or the recovery flow writing SRAM, changes what the ROM can
\* read
CaliptraChanges ==
    /\ BootRunning
    /\ \/ /\ \E f \in BootFlags, v \in BOOLEAN :
               /\ boot_soc[f] # v
               /\ boot_soc' = [boot_soc EXCEPT ![f] = v]
          /\ UNCHANGED boot_sram
       \/ /\ \E w \in 0..MaxSramWord : w # boot_sram /\ boot_sram' = w
          /\ UNCHANGED boot_soc
    /\ UNCHANGED <<boot_pc, boot_params, boot_log, boot_code>>
    /\ UNCHANGED <<emuVars, freeVars, gdbVars, sleepVars, picVars, recVars,
                   doeVars, rrVars, besideBoot>>

\* ColdBoot::run up to the first wait: boot go, lifecycle controller, OTP,
\* token burning, fuse read, watchdog and I3C configuration
\* (the lifecycle and OTP drivers supply their own error codes to
\* fatal_error; 2 and 3 stand for them)
ColdBootEnter ==
    /\ boot_pc = "reset"
    /\ \E params \in [lifecycle_transition : BOOLEAN,
                      burn_lifecycle_tokens : BOOLEAN,
                      program_field_entropy : BOOLEAN,
                      flash_recovery : BOOLEAN,
                      riscv32 : BOOLEAN],
          lc_init_ok \in BOOLEAN, transition_ok \in BOOLEAN,
          otp_init_ok \in BOOLEAN, burn_ok \in BOOLEAN,
          read_fuses_ok \in BOOLEAN :
         /\ boot_params' = params
         /\ IF ~lc_init_ok
            THEN /\ boot_pc' = "panic"
                 /\ boot_code' = 0
                 /\ boot_log' = <<"caliptra_boot_go">>
            ELSE IF params.lifecycle_transition
            THEN /\ IF transition_ok
                    THEN boot_pc' = "halt" /\ boot_code' = 0
                    ELSE FatalError(2)
                 /\ boot_log' = <<"caliptra_boot_go">>
            ELSE IF ~otp_init_ok
            THEN /\ FatalError(3)
                 /\ boot_log' = <<"caliptra_boot_go">>
            ELSE IF params.burn_lifecycle_tokens
            THEN /\ boot_pc' = IF burn_ok THEN "halt" ELSE "exit"
                 /\ boot_code' = 0
                 /\ boot_log' = <<"caliptra_boot_go">>
            ELSE IF ~read_fuses_ok
            THEN /\ FatalError(1)
                 /\ boot_log' = <<"caliptra_boot_go">>
            ELSE /\ boot_pc' = "wait_ready_for_fuses"
                 /\ boot_code' = 0
                 /\ boot_log' = <<"caliptra_boot_go", "i3c_configure">>
    /\ UNCHANGED <<boot_soc, boot_sram>>
    /\ UNCHANGED <<emuVars, freeVars, gdbVars, sleepVars, picVars, recVars,
                   doeVars, rrVars, besideBoot>>

\* while !soc.ready_for_fuses() {} ends, and the AXI users and the fuses
\* are written
WriteFuses ==
    /\ boot_pc = "wait_ready_for_fuses"
    /\ boot_soc["ready_for_fuses"]
    /\ boot_log' = boot_log \o <<"ready_for_fuses">> \o FuseWriteEvents
    /\ boot_pc' = "wait_fuses_done"
    /\ UNCHANGED <<boot_params, boot_soc, boot_sram, boot_code>>
    /\ UNCHANGED <<emuVars, freeVars, gdbVars, sleepVars, picVars, recVars,
                   doeVars, rrVars, besideBoot>>

\* while soc.ready_for_fuses() {} ends
WaitFusesDone ==
    /\ boot_pc = "wait_fuses_done"
    /\ ~boot_soc["ready_for_fuses"]
    /\ boot_log' = Append(boot_log, "fuses_dropped")
    /\ boot_pc' = "wait_ready_for_mbox"
    /\ UNCHANGED <<boot_params, boot_soc, boot_sram, boot_code>>
    /\ UNCHANGED <<emuVars, freeVars, gdbVars, sleepVars, picVars, recVars,
                   doeVars, rrVars, besideBoot>>

\* while !soc.ready_for_mbox() {} ends, and RI_DOWNLOAD_FIRMWARE is sent
\* and its response awaited
DownloadFirmware ==
    /\ boot_pc = "wait_ready_for_mbox"
    /\ boot_soc["ready_for_mbox"]
    /\ \E start_ok \in BOOLEAN, finish_ok \in BOOLEAN :
         IF ~start_ok
         THEN /\ boot_log' = boot_log \o <<"ready_for_mbox",
                                 "RI_DOWNLOAD_FIRMWARE", "mailbox_error">>
              /\ FatalError(4)
         ELSE IF ~finish_ok
         THEN /\ boot_log' = boot_log \o <<"ready_for_mbox",
                                 "RI_DOWNLOAD_FIRMWARE", "mailbox_error">>
              /\ FatalError(5)
         ELSE /\ boot_log' = boot_log \o <<"ready_for_mbox",
                                 "RI_DOWNLOAD_FIRMWARE">>
              /\ boot_pc' = "flash"
              /\ UNCHANGED boot_code
    /\ UNCHANGED <<boot_params, boot_soc, boot_sram>>
    /\ UNCHANGED <<emuVars, freeVars, gdbVars, sleepVars, picVars, recVars,
                   doeVars, rrVars, besideBoot>>

\* the flash recovery flow of hw-2-1 builds with a flash driver
FlashRecovery ==
    /\ boot_pc = "flash"
    /\ \E load_ok \in BOOLEAN :
         IF boot_params.flash_recovery /\ ~load_ok
         THEN FatalError(1)
         ELSE boot_pc' = "wait_fw_ready" /\ UNCHANGED boot_code
    /\ UNCHANGED <<boot_params, boot_soc, boot_sram, boot_log>>
    /\ UNCHANGED <<emuVars, freeVars, gdbVars, sleepVars, picVars, recVars,
                   doeVars, rrVars, besideBoot>>

\* while !soc.fw_ready() {} ends
WaitFwReady ==
    /\ boot_pc = "wait_fw_ready"
    /\ boot_soc["fw_ready"]
    /\ boot_log' = Append(boot_log, "fw_ready")
    /\ boot_pc' = "check_firmware"
    /\ UNCHANGED <<boot_params, boot_soc, boot_sram, boot_code>>
    /\ UNCHANGED <<emuVars, freeVars, gdbVars, sleepVars, picVars, recVars,
                   doeVars, rrVars, besideBoot>>

\* the first SRAM word is read and tested
CheckFirmware ==
    /\ boot_pc = "check_firmware"
    /\ boot_log' = Append(boot_log, IF boot_sram = 0 THEN "sram_zero"
                                    ELSE "sram_nonzero")
    /\ IF FirmwareInvalid(boot_sram)
       THEN FatalError(1)
       ELSE boot_pc' = "wait_ready_for_runtime" /\ UNCHANGED boot_code
    /\ UNCHANGED <<boot_params, boot_soc, boot_sram>>
    /\ UNCHANGED <<emuVars, freeVars, gdbVars, sleepVars, picVars, recVars,
                   doeVars, rrVars, besideBoot>>

\* while !soc.ready_for_runtime() {} ends
WaitReadyForRuntime ==
    /\ boot_pc = "wait_ready_for_runtime"
    /\ boot_soc["ready_for_runtime"]
    /\ boot_log' = Append(boot_log, "ready_for_runtime")
    /\ boot_pc' = "common_done"
    /\ UNCHANGED <<boot_params, boot_soc, boot_sram, boot_code>>
    /\ UNCHANGED <<emuVars, freeVars, gdbVars, sleepVars, picVars, recVars,
                   doeVars, rrVars, besideBoot>>

\* program_field_entropy if requested, then the jump to the firmware entry
\* (riscv32) or the panic of the other targets
JumpToFirmware ==
    /\ boot_pc = "common_done"
    /\ \E fe_start_ok \in BOOLEAN, fe_finish_ok \in BOOLEAN :
         IF boot_params.program_field_entropy /\ ~fe_start_ok
         THEN FatalError(6) /\ UNCHANGED boot_log
         ELSE IF boot_params.program_field_entropy /\ ~fe_finish_ok
         THEN FatalError(7) /\ UNCHANGED boot_log
         ELSE IF boot_params.riscv32
         THEN /\ boot_pc' = "firmware"
              /\ boot_log' = Append(boot_log, "jump")
              /\ UNCHANGED boot_code
         ELSE /\ boot_pc' = "panic"
              /\ UNCHANGED <<boot_log, boot_code>>
    /\ UNCHANGED <<boot_params, boot_soc, boot_sram>>
    /\ UNCHANGED <<emuVars, freeVars, gdbVars, sleepVars, picVars, recVars,
                   doeVars, rrVars, besideBoot>>

InitBootSpec == InitIdle /\ InitPeriph

NextBoot ==
    \/ CaliptraChanges
    \/ ColdBootEnter
    \/ WriteFuses
    \/ WaitFusesDone
    \/ DownloadFirmware
    \/ FlashRecovery
    \/ WaitFwReady
    \/ CheckFirmware
    \/ WaitReadyForRuntime
    \/ JumpToFirmware

SpecBoot == InitBootSpec /\ [][NextBoot]_vars

----------------------------------------------------------------------------
\* emulator/app/src/tests/mctp_ctrl_cmd.rs: one MCTP control-command test

\* byte vectors of up to MaxMsgLen bytes
Msgs == UNION {[1..n -> 0..MaxByte] : n \in 0..MaxMsgLen}

\* Test::check_response: the value of passed it leaves
CheckResponse(p, data, expected) ==
    IF Len(data) = Len(expected) /\ data = expected THEN TRUE ELSE p

\* the ReceiveResp arm of run_test: on a non-empty response it calls
\* check_response and then assigns true to passed
ReceiveRespPassed(p, data, expected) ==
    IF data # <<>>
    THEN LET checked == CheckResponse(p, data, expected)
         IN  TRUE
    ELSE p

\* Test::new, called by generate_tests with the expected response, which
\* holds at least the two MCTP headers
TestNew ==
    /\ test_state = "none"
    /\ \E m \in Msgs \ {<<>>} : resp_msg' = m
    /\ test_state' = "Start"
    /\ passed' = FALSE
    /\ got_msg' = <<>>
    /\ UNCHANGED <<emuVars, freeVars, gdbVars, sleepVars, picVars, recVars,
                   doeVars, rrVars, besideTest>>

\* run_test, MctpTestState::Start
TestStart ==
    /\ EMULATOR_RUNNING
    /\ test_state = "Start"
    /\ test_state' = "SendReq"
    /\ UNCHANGED <<passed, resp_msg, got_msg>>
    /\ UNCHANGED <<emuVars, freeVars, gdbVars, sleepVars, picVars, recVars,
                   doeVars, rrVars, besideTest>>

\* run_test, MctpTestState::SendReq
TestSendReq ==
    /\ EMULATOR_RUNNING
    /\ test_state = "SendReq"
    /\ test_state' = "ReceiveResp"
    /\ UNCHANGED <<passed, resp_msg, got_msg>>
    /\ UNCHANGED <<emuVars, freeVars, gdbVars, sleepVars, picVars, recVars,
                   doeVars, rrVars, besideTest>>

\* run_test, MctpTestState::ReceiveResp: receive_response returns the
\* response, or an empty vector when none came
TestReceiveResp ==
    /\ EMULATOR_RUNNING
    /\ test_state = "ReceiveResp"
    /\ \E data \in Msgs :
         /\ got_msg' = data
         /\ passed' = ReceiveRespPassed(passed, data, resp_msg)
    /\ test_state' = "Finish"
    /\ UNCHANGED resp_msg
    /\ UNCHANGED <<emuVars, freeVars, gdbVars, sleepVars, picVars, recVars,
                   doeVars, rrVars, besideTest>>

\* run_test, MctpTestState::Finish: the verdict is printed and the loop left
TestFinish ==
    /\ EMULATOR_RUNNING
    /\ test_state = "Finish"
    /\ test_state' = "done"
    /\ UNCHANGED <<passed, resp_msg, got_msg>>
    /\ UNCHANGED <<emuVars, freeVars, gdbVars, sleepVars, picVars, recVars,
                   doeVars, rrVars, besideTest>>

InitTestSpec == InitIdle /\ InitPeriph

NextTest == TestNew \/ TestStart \/ TestSendReq \/ TestReceiveResp \/ TestFinish

SpecTest == InitTestSpec /\ [][NextTest]_vars

----------------------------------------------------------------------------
\* Properties

\* the addresses held by a breakpoint vector
Range(bps) == {bps[i] : i \in DOMAIN bps}

\* C1: every Emulator::step steps the MCU CPU, then the Caliptra CPU, then
\* the BMC when there is one, then does the stdin/timer handling, each
\* exactly once and in that order, whatever the MCU step returned.
Thm_C1_StepOrder ==
    tick_log # <<>> =>
        tick_log = IF bmc_present
                   THEN <<"mcu_cpu", "caliptra_cpu", "bmc", "stdin_uart">>
                   ELSE <<"mcu_cpu", "caliptra_cpu", "stdin_uart">>

\* a step whose MCU action was fatal, on an emulator with a BMC
Wit_C1_FatalStepWithBmc ==
    tick_log # <<>> /\ mcu_action = "Fatal" /\ bmc_present

\* C2: Emulator::step returns Exit exactly when the MCU step was fatal,
\* Break exactly when it returned Break and Continue otherwise; the action
\* of the Caliptra CPU never changes the result.
Thm_C2_SystemAction ==
    tick_log # <<>> =>
        /\ (step_ret = "Exit") <=> (mcu_action = "Fatal")
        /\ (step_ret = "Break") <=> (mcu_action = "Break")
        /\ (step_ret = "Continue") <=> (mcu_action = "Continue")

\* the Caliptra CPU halted in a step and the system step still continued
Wit_C2_CaliptraHaltDemoted ==
    tick_log # <<>> /\ caliptra_action = "Fatal" /\ step_ret = "Continue"

\* C3: after n Emulator::step calls EMULATOR_TICKS has advanced by exactly n.
Claim_C3_TicksCountSteps == EMULATOR_TICKS = stepCalls

\* C4 as stated: a Continue-mode run or run_responsive makes at most 1000
\* Emulator::step calls before it returns to the protocol server.
Claim_C4_EveryResumeBounded ==
    (call \in {"run", "run_responsive"} /\ exec_mode = "Continue") =>
        runSteps <= ResponsiveSteps

\* C4 as amended: run_responsive makes at most 1000 Emulator::step calls per
\* call, and in Continue mode it returns Signal(SIGALRM) exactly when its
\* 1000th consecutive step returned Continue with no breakpoint hit (no
\* interrupt having been pending); no other entry point returns SIGALRM.
Thm_C4_ResponsiveBounded ==
    [][ /\ (call = "run_responsive" /\ in_run) =>
              (runSteps + 1 <= ResponsiveSteps /\ runSteps' <= runSteps + 1)
        /\ (stop' = "SIGALRM" /\ stop # "SIGALRM") => call = "run_responsive"
        /\ (call = "run_responsive" /\ in_run /\ exec_mode = "Continue") =>
              ((stop' = "SIGALRM") <=>
                  /\ ~interrupt_requested
                  /\ runSteps + 1 = ResponsiveSteps
                  /\ stepped'
                  /\ step_ret' = "Continue"
                  /\ pc' \notin Range(breakpoints))
      ]_vars

\* run_responsive has returned SIGALRM from its last step
Wit_C4_Sigalrm ==
    call = "run_responsive" /\ ~in_run /\ stop = "SIGALRM" /\ stepped

\* C5: when the interrupt flag is set as a Continue-mode run is about to
\* step, the run returns Signal(SIGINT) without an Emulator::step and the
\* flag is cleared.
Thm_C5_InterruptStops ==
    [][ (in_run /\ exec_mode = "Continue" /\ interrupt_requested) =>
            /\ stop' = "SIGINT"
            /\ ~in_run'
            /\ ~interrupt_requested'
            /\ ~stepped'
            /\ UNCHANGED emuVars
      ]_vars

\* cond_run has returned SIGINT without stepping and the flag is clear
Wit_C5_CondRunSigint ==
    call = "run" /\ exec_mode = "Continue" /\ ~in_run /\ stop = "SIGINT"
    /\ ~stepped /\ ~interrupt_requested

\* C6: in Continue mode, when an Emulator::step returns Continue and leaves
\* the PC on a breakpoint address, the run returns SwBreak at once, with the
\* PC on that address.
Thm_C6_BreakpointStops ==
    /\ (stepped /\ exec_mode = "Continue" /\ step_ret = "Continue"
        /\ pc \in Range(breakpoints)) => (stop = "SwBreak" /\ ~in_run)
    /\ (stepped /\ stop = "SwBreak") => (pc \in Range(breakpoints) /\ ~in_run)

\* run_responsive stopped on a breakpoint in a later iteration of its loop
Wit_C6_SwBreak ==
    call = "run_responsive" /\ ~in_run /\ stop = "SwBreak" /\ stepped
    /\ mcu_action = "Continue" /\ pc \in Range(breakpoints)
    /\ Len(breakpoints) > 1

\* C7: add_sw_breakpoint(P) followed by remove_sw_breakpoint(P) leaves a
\* breakpoint vector that stops runs at exactly the addresses the vector
\* before the two calls did.
Thm_C7_AddRemoveNeutral ==
    bp_log.op = "add_remove" =>
        /\ bp_log.ret
        /\ Range(breakpoints) = Range(bp_log.before)
        /\ Len(breakpoints) = Len(bp_log.before)

\* P was added and removed again while P was already a breakpoint, and the
\* vector is not the one before the two calls
Wit_C7_AddRemoveReorders ==
    bp_log.op = "add_remove" /\ breakpoints # bp_log.before

\* C8: after remove_sw_breakpoint(P) returned true P is no breakpoint any
\* more, however often P had been added, and it returns false exactly when
\* P was not a breakpoint.
Claim_C8_RemoveClears ==
    bp_log.op \in {"remove", "add_remove"} =>
        /\ bp_log.ret => bp_log.addr \notin Range(breakpoints)
        /\ bp_log.op = "remove" =>
              (~bp_log.ret <=> bp_log.addr \notin Range(bp_log.before))

\* C9: in Step mode with no interrupt pending, run, run_responsive and
\* run_single_step each make exactly one Emulator::step and return DoneStep.
Thm_C9_StepModeDoneStep ==
    [][ (in_run /\ exec_mode = "Step" /\ ~interrupt_requested) =>
            /\ runSteps = 0
            /\ stepped'
            /\ stop' = "DoneStep"
            /\ ~in_run'
      ]_vars

\* run_single_step returned DoneStep after its one step
Wit_C9_DoneStep ==
    call = "run_single_step" /\ exec_mode = "Step" /\ ~in_run
    /\ stop = "DoneStep" /\ stepped

\* C10 as stated: a run whose Emulator::step returned Exit returns Exited,
\* in Step mode as well as in Continue mode.
Claim_C10_ExitAlwaysExited ==
    (stepped /\ step_ret = "Exit") => (~in_run /\ stop = "Exited")

\* C10 as amended: in Continue mode a run whose Emulator::step returned Exit
\* returns Exited at once; in Step mode the action of the step is dropped
\* and the run returns DoneStep.
Thm_C10_ExitInContinueMode ==
    (stepped /\ step_ret = "Exit") =>
        /\ ~in_run
        /\ stop = IF exec_mode = "Continue" THEN "Exited" ELSE "DoneStep"

\* cond_run returned Exited because its step returned Exit
Wit_C10_CondRunExited ==
    call = "run" /\ exec_mode = "Continue" /\ ~in_run /\ stop = "Exited"
    /\ stepped /\ step_ret = "Exit"

\* C11: an El2PicBus read or write whose size is not Word or whose address
\* is not a multiple of 4 returns LoadAddrMisaligned (read) or
\* StoreAddrMisaligned (write), calls no peripheral read_* or write_* method
\* and leaves the peripheral's registers as they were.
Thm_C11_MisalignedNeverRouted ==
    [][(/\ pic_last'.op \in {"read", "write"}
        /\ (pic_last'.size # "Word" \/ pic_last'.addr % 4 # 0))
       => /\ pic_last'.ret = IF pic_last'.op = "read"
                             THEN "LoadAddrMisaligned"
                             ELSE "StoreAddrMisaligned"
          /\ pic_last'.calls = <<>>
          /\ pic_regs' = pic_regs]_vars

\* a byte-sized store to an aligned, writable register address was refused
\* while the peripheral held non-zero registers
Wit_C11_ByteStoreRefused ==
    /\ pic_last.op = "write"
    /\ pic_last.size = "Byte"
    /\ pic_last.addr = 8192
    /\ pic_last.data = 1
    /\ pic_last.ret = "StoreAddrMisaligned"
    /\ pic_regs[<<"meipl", 0>>] = 1
    /\ pic_regs[<<"meie", 0>>] = 0

Thm_C13_BmcAfterChannels ==
    (rec_phase = "built" /\ ~flash_boot) =>
        /\ bmc_present
        /\ \E b \in 1..Len(new_log) :
             /\ new_log[b] = "Bmc::new"
             /\ \E i \in 1..(b - 1) : new_log[i] = "caliptra_cpu.register_events"
             /\ \E i \in 1..(b - 1) : new_log[i] = "mcu_cpu.register_events"
             /\ \A i \in 1..Len(new_log) :
                  new_log[i] = "push_recovery_image" => i > b
        /\ tick_log = <<>> =>
             bmc_queue = <<"caliptra_firmware", "soc_manifest", "mcu_firmware">>

\* a built recovery-interface emulator that has not stepped yet
Wit_C13_BuiltBeforeFirstStep ==
    /\ rec_phase = "built"
    /\ ~flash_boot
    /\ bmc_present
    /\ tick_log = <<>>
    /\ Len(bmc_queue) = 3
    /\ bmc_state = "Idle"

\* C14: no receiver takes an event from its channel in the tick in which the
\* event was sent: neither the Caliptra CPU nor the recovery controller.
Claim_C14_NextTickOnly ==
    /\ rec_last.cal_took => ~rec_last.cal_same_tick
    /\ rec_last.bmc_took => ~rec_last.bmc_same_tick

\* C15: while an accepted send command awaits its send_done, every further
\* send command (command 2), from the same or another app, fails with BUSY
\* and does not call the transport's transmit.
Claim_C15_SingleInFlightSender ==
    (doe_last.op = "command" /\ doe_last.num = 2 /\ doe_last.owner_before # 0)
        => doe_last.ret = "BUSY" /\ doe_last.transmits = <<>>

\* C16: for a received valid DoeDiscovery data object with request index i,
\* if i is a supported type the driver makes exactly one transmit call, of
\* DOE_DISCOVERY_DATA_OBJECT_LEN_DW dwords carrying protocol i and next index
\* (i + 1) mod NUM_DATA_OBJECT_PROTOCOL_TYPES; otherwise it makes none.
Thm_C16_DiscoveryResponse ==
    (/\ doe_last.op = "receive"
     /\ doe_last.frame.len \in 3..MaxRxBufDw
     /\ doe_last.frame.hdr_ok
     /\ doe_last.frame.hdr_len = doe_last.frame.len
     /\ doe_last.frame.type = 0)
    => LET i == doe_last.frame.index
       IN  IF i < NUM_DATA_OBJECT_PROTOCOL_TYPES
           THEN /\ Len(doe_last.transmits) = 1
                /\ doe_last.transmits[1].len_dw = DOE_DISCOVERY_DATA_OBJECT_LEN_DW
                /\ doe_last.transmits[1].data =
                     <<i, IF i = NUM_DATA_OBJECT_PROTOCOL_TYPES - 1 THEN 0
                          ELSE i + 1>>
                /\ (i = 0 => doe_last.transmits[1].data[2] =
                               1 % NUM_DATA_OBJECT_PROTOCOL_TYPES)
           ELSE doe_last.transmits = <<>>

\* a discovery request for the last supported index was answered with next
\* index 0
Wit_C16_LastIndexWraps ==
    /\ doe_last.op = "receive"
    /\ doe_last.frame.type = 0
    /\ doe_last.frame.index = 2
    /\ Len(doe_last.transmits) = 1
    /\ doe_last.transmits[1].data = <<2, 0>>
    /\ doe_last.transmits[1].result = "Ok"

\* C17: a received frame whose delivered length is below 3 dwords or above
\* the buffer, whose header does not decode, whose header length differs
\* from the delivered word count, or whose type is none of DoeDiscovery,
\* Spdm, SecureSpdm, schedules no upcall, transmits nothing and has its
\* buffer handed back to the transport exactly once.
Thm_C17_BadFrameDropped ==
    (/\ doe_last.op = "receive"
     /\ \/ doe_last.frame.len < 3
        \/ doe_last.frame.len > MaxRxBufDw
        \/ ~doe_last.frame.hdr_ok
        \/ doe_last.frame.hdr_len # doe_last.frame.len
        \/ doe_last.frame.type \notin {0, 1, 2})
    => /\ doe_last.upcalls = <<>>
       /\ doe_last.transmits = <<>>
       /\ doe_last.released = 1

\* an Spdm frame whose header length disagrees with the delivered length
\* was dropped although an app was waiting for a message
Wit_C17_MismatchDropped ==
    /\ doe_last.op = "receive"
    /\ doe_last.frame.type = 1
    /\ doe_last.frame.len = 4
    /\ doe_last.frame.hdr_len = 3
    /\ doe_apps[1].waiting_rx
    /\ doe_last.released = 1

\* C18: once the running flag has been cleared, by the Ctrl-C handler or by
\* trigger_exit_request, the main loop makes no further Emulator::step call
\* and the stdin reader puts no further byte into the UART slot.
Claim_C18_ClearedFlagStopsBoth ==
    [][(~running \/ ~LIB_EMULATOR_RUNNING) =>
         /\ stepCalls' = stepCalls
         /\ stdin_uart = <<>> => stdin_uart' = <<>>]_vars

\* C19: a poll of sleep_emulator_ticks(n) that finds the running flag set
\* goes back to waiting only if fewer than n Emulator::step calls have been
\* made since the call, so a running, stepping emulator lets it return.
Claim_C19_SleepReturnsAfterTicks ==
    [][(sleep_pc \in {"entry", "loop"} /\ sleep_pc' = "wait") =>
         stepCalls - sleep_steps < sleep_wait]_vars

Claim_C21_FirstResetAfterCycleClear ==
    /\ rr_last.op = "handle_power_down" => rr_value = 0
    /\ (/\ rr_last.op = "handle_warm_reset"
        /\ rr_last.cycle = "up"
        /\ (rr_last.before \div 4) % 2 = 0)
       => (rr_value \div 4) % 2 = 0

\* C22: after handle_warm_reset bits 0 and 1 are clear whatever the register
\* held, and every bit above bit 2 is as it was before the call.
Thm_C22_WarmResetFrame ==
    rr_last.op = "handle_warm_reset" =>
        /\ rr_value % 4 = 0
        /\ rr_value \div 8 = rr_last.before \div 8

\* software had written all four bits, then a warm reset cleared bits 0 and 1
\* and kept the bit above WARM_RESET
Wit_C22_AllBitsWritten ==
    /\ rr_last.op = "handle_warm_reset"
    /\ rr_last.before = 15
    /\ rr_value = 12

\* C23: while no Emulator::step has been made, a handle_warm_reset does not
\* set WARM_RESET, however many warm resets came before it.
Claim_C23_NoLatchBeforeFirstStep ==
    (/\ rr_last.op = "handle_warm_reset"
     /\ tick_log = <<>>
     /\ (rr_last.before \div 4) % 2 = 0)
    => (rr_value \div 4) % 2 = 0

\* C24: when capture is enabled, the vector run() returns holds every byte
\* the guest wrote to the UART TX register during the run, in order.
Claim_C24_RunReturnsCapturedBytes ==
    (run_pc = "returned" /\ capture_uart_output) => run_ret = uart_tx_written

\* C25: the stdin slot holds at most one byte; every byte the reader stored
\* was taken by the guest or is still in the slot, so none was overwritten;
\* and the bytes stored, followed by those still buffered, are the bytes
\* typed, in the order typed.
Thm_C25_MailboxKeepsOrder ==
    /\ Len(stdin_uart) <= 1
    /\ slotted = taken \o stdin_uart
    /\ typed = slotted \o buffer

\* a two-byte key was typed, its first byte was taken by the guest, and its
\* second byte waits in the slot
Wit_C25_SecondByteWaits ==
    /\ typed = <<195, 169>>
    /\ taken = <<195>>
    /\ stdin_uart = <<169>>
    /\ buffer = <<>>

\* the defaults with every override the invoker supplied put in place
Overridden(default, cli) ==
    [f \in Fields |-> IF cli[f] # NoOverride THEN cli[f] ELSE default[f]]

\* C26: in the map the buses are built from, every field the invoker
\* overrode holds the override and every other field holds its default.
Claim_C26_OverridesReplaceDefaults ==
    map_pc \in {"built", "stepped"} =>
        map_built = Overridden(EMULATOR_MEMORY_MAP, map_cli)

\* C27: the default map is pairwise disjoint, and no CPU step is made under a
\* configuration whose overrides make two regions overlap.
Claim_C27_OverlapRejected ==
    /\ Disjoint(EMULATOR_MEMORY_MAP)
    /\ map_pc = "stepped" => Disjoint(Overridden(EMULATOR_MEMORY_MAP, map_cli))

\* C28: read_from_zip returns, for each of the five fields, the bytes
\* all_build packed under that field's entry name, whether or not the bundle
\* also holds an entry with another name.
Thm_C28_BundleRoundTrip ==
    zip_pc = "read" =>
        /\ zip_binaries.caliptra_rom = zip_files[1]
        /\ zip_binaries.caliptra_fw = zip_files[2]
        /\ zip_binaries.mcu_rom = zip_files[3]
        /\ zip_binaries.mcu_runtime = zip_files[4]
        /\ zip_binaries.soc_manifest = zip_files[5]

\* a bundle with a non-empty foreign entry at its end was read, and the
\* manifest read differs from the foreign entry's bytes
Wit_C28_ForeignEntryIgnored ==
    /\ zip_pc = "read"
    /\ Len(zip_archive) = 6
    /\ zip_archive[6].name = "README"
    /\ zip_archive[6].data = Deflate(<<1>>)
    /\ zip_binaries.soc_manifest = <<0>>
    /\ zip_binaries.caliptra_rom = <<1>>
    /\ zip_binaries.mcu_rom = <<>>

\* C29: a read returns Ok, with the value left in the callback's buffer,
\* exactly when a read callback is installed and returned true, and
\* LoadAccessFault otherwise; a write returns Ok exactly under the same
\* condition on the write callback, and StoreAccessFault otherwise; an access
\* calls only the matching callback, and at most once.
Thm_C29_ShimFollowsCallback ==
    /\ shim_last.op = "read" =>
         /\ shim_last.ret = "Ok" <=> (shim_last.installed /\ shim_last.cb_ret)
         /\ shim_last.ret = "Ok" => shim_last.data = shim_last.buffer
         /\ shim_last.ret # "Ok" => shim_last.ret = "LoadAccessFault"
         /\ shim_last.calls \in {<<>>, <<"read_callback">>}
         /\ shim_last.installed = (shim_last.calls # <<>>)
    /\ shim_last.op = "write" =>
         /\ shim_last.ret = "Ok" <=> (shim_last.installed /\ shim_last.cb_ret)
         /\ shim_last.ret # "Ok" => shim_last.ret = "StoreAccessFault"
         /\ shim_last.calls \in {<<>>, <<"write_callback">>}
         /\ shim_last.installed = (shim_last.calls # <<>>)

\* with only the read callback installed, a read returned the value the
\* callback wrote
Wit_C29_ReadReturnsCallbackValue ==
    /\ read_callback /\ ~write_callback
    /\ shim_last.op = "read"
    /\ shim_last.ret = "Ok"
    /\ shim_last.data = 1
    /\ shim_last.calls = <<"read_callback">>

\* C30: read_addrs and write_addrs issue no byte-sized bus access; the bytes
\* read_addrs returns from a PIC register are the bytes the register holds,
\* and after write_addrs a writable PIC register holds the bytes written.
Claim_C30_DebuggerWordAccess ==
    /\ \A i \in DOMAIN mem_last.sizes : mem_last.sizes[i] # "Byte"
    /\ mem_last.op = "read_addrs" => mem_last.data = mem_last.before
    /\ mem_last.op = "write_addrs" =>
         \A i \in DOMAIN mem_last.data :
            PicWriteTarget(mem_last.start)[1] # "none" =>
               ByteAt(pic_regs, mem_last.start + i - 1) = mem_last.data[i]

\* C31: a send command (command 2) that fails to start, because the app
\* buffer length is not a multiple of 4 or because the transport's transmit
\* returns an error, returns failure and leaves the app's pending_tx false.
Claim_C31_FailedSendNotPending ==
    (/\ doe_last.op = "command"
     /\ doe_last.num = 2
     /\ doe_last.ret # "BUSY"
     /\ \/ doe_last.transmits = <<>>
        \/ doe_last.transmits[1].result # "Ok")
    => /\ doe_last.ret # "Ok"
       /\ ~doe_apps[doe_last.app].pending_tx

\* C32: every receive upcall hands the receive buffer back to the transport
\* with set_rx_buffer exactly once, whatever branch it takes, and no other
\* driver operation hands a buffer back.
Thm_C32_RxBufferReturnedOnce ==
    /\ doe_last.op = "receive" => doe_last.released = 1
    /\ doe_last.op \in {"command", "send_done"} => doe_last.released = 0

\* an Spdm object was delivered to a waiting app and the buffer went back
\* to the transport once
Wit_C32_SpdmDeliveredAndReturned ==
    /\ doe_last.op = "receive"
    /\ ReceivePath(doe_last.frame) = "spdm"
    /\ doe_last.upcalls # <<>>
    /\ doe_last.released = 1

\* C33: provided the transport calls send_done for every transmit it
\* accepted, an app whose pending_tx flag was set by a send command
\* eventually has the flag cleared.
Claim_C33_PendingEventuallyCleared ==
    \A a \in Apps : doe_apps[a].pending_tx ~> ~doe_apps[a].pending_tx

\* C34: a step schedules MESSAGE_TRANSMITTED for an app, or clears the
\* app's pending_tx, only when it is the send_done of a transmission that
\* this app's send command started.
Claim_C34_CompletionOnlyForSender ==
    [][\A a \in Apps :
         (\/ doe_apps[a].pending_tx /\ ~doe_apps'[a].pending_tx
          \/ \E i \in 1..Len(doe_last'.upcalls) :
                /\ doe_last'.upcalls[i].upcall = "MESSAGE_TRANSMITTED"
                /\ doe_last'.upcalls[i].app = a)
         => doe_last'.op = "send_done" /\ tx_owner = a]_vars

\* C35: MESSAGE_RECEIVED upcalls come only from the receipt of an Spdm or
\* SecureSpdm object and go only to apps that had waiting_rx set, at most
\* one per app; the receipt clears every waiting_rx; the reported length is
\* 4 * min(app buffer length / 4, received dwords); with no app waiting
\* nothing is scheduled, and a receive command schedules nothing itself.
Thm_C35_DeliveryOnlyToWaiting ==
    LET ups == doe_last.upcalls
        received == {i \in 1..Len(ups) : ups[i].upcall = "MESSAGE_RECEIVED"}
        dw == doe_last.read_len \div 4
    IN  /\ received # {} =>
              /\ doe_last.op = "receive"
              /\ ReceivePath(doe_last.frame) = "spdm"
        /\ \A i \in received :
              /\ ups[i].app \in doe_last.waiting_before
              /\ ups[i].arg = 4 * (IF dw < doe_last.frame.len THEN dw
                                   ELSE doe_last.frame.len)
              /\ \A j \in received : ups[j].app = ups[i].app => j = i
        /\ (doe_last.op = "receive" /\ ReceivePath(doe_last.frame) = "spdm")
             => \A a \in Apps : ~doe_apps[a].waiting_rx
        /\ (doe_last.op = "receive" /\ doe_last.waiting_before = {})
             => ups = <<>>

\* with app 2 alone waiting on a 4-byte buffer, a four-dword SecureSpdm
\* object was announced to app 2 only, with length 4
Wit_C35_ShortBufferOneApp ==
    /\ doe_last.op = "receive"
    /\ doe_last.frame.type = 2
    /\ doe_last.frame.len = 4
    /\ doe_last.waiting_before = {2}
    /\ doe_last.upcalls =
         << [app |-> 2, upcall |-> "MESSAGE_RECEIVED", arg |-> 4] >>
    /\ ~doe_apps[2].waiting_rx

\* C36: interrupt_requested is cleared only by a run call that returns
\* Signal(SIGINT); a request pending while exec_mode is Step survives the
\* single step of run and run_responsive, which return DoneStep; and the
\* next run that tests the flag (run_single_step, or any run in Continue
\* mode) returns SIGINT.
Thm_C36_InterruptNeverLost ==
    [][ /\ (interrupt_requested /\ ~interrupt_requested') =>
              (in_run /\ ~in_run' /\ stop' = "SIGINT")
        /\ (/\ in_run
            /\ interrupt_requested
            /\ exec_mode = "Step"
            /\ call \in {"run", "run_responsive"}) =>
              (interrupt_requested' /\ stop' = "DoneStep" /\ ~in_run')
        /\ (/\ in_run
            /\ interrupt_requested
            /\ (call = "run_single_step" \/ exec_mode = "Continue")) =>
              (stop' = "SIGINT" /\ ~interrupt_requested')
      ]_vars

\* a Step-mode run_responsive has stepped and returned DoneStep with the
\* interrupt request still pending
Wit_C36_PendingAcrossStep ==
    /\ call = "run_responsive"
    /\ exec_mode = "Step"
    /\ ~in_run
    /\ stepped
    /\ stop = "DoneStep"
    /\ interrupt_requested

\* C37: the ROM jumps to the firmware entry only after it has, in this
\* order, observed fw_ready, read a non-zero first SRAM word and observed
\* ready_for_runtime; once it has read a zero first word it is in
\* fatal_error and has not jumped.
Thm_C37_JumpOnlyAfterChecks ==
    LET P(e) == Position(boot_log, e)
    IN  /\ (boot_pc = "firmware" \/ P("jump") # 0) =>
              /\ boot_pc = "firmware"
              /\ 0 < P("fw_ready")
              /\ P("fw_ready") < P("sram_nonzero")
              /\ P("sram_nonzero") < P("ready_for_runtime")
              /\ P("ready_for_runtime") < P("jump")
        /\ P("sram_zero") # 0 =>
              /\ boot_pc = "fatal"
              /\ boot_code = 1
              /\ P("jump") = 0

\* the ROM has jumped to firmware after programming field entropy
Wit_C37_Jumped ==
    /\ boot_pc = "firmware"
    /\ boot_params.program_field_entropy
    /\ Position(boot_log, "jump") = Len(boot_log)

\* C38: populate_fuses and fuse_write_done come only after ready_for_fuses
\* was observed and the mailbox, fuse and TRNG AXI users were set and then
\* locked; RI_DOWNLOAD_FIRMWARE is sent only after ready_for_fuses was seen
\* to drop and ready_for_mbox was then observed; and after a mailbox error
\* on that command the ROM is in fatal_error, having neither observed
\* fw_ready nor jumped.
Thm_C38_FuseAndMailboxOrder ==
    LET P(e) == Position(boot_log, e)
    IN  /\ \A w \in {"populate_fuses", "fuse_write_done"} :
              P(w) # 0 =>
                 /\ 0 < P("ready_for_fuses")
                 /\ \A u \in {"mbox", "fuse", "trng"} :
                       LET set == Position(boot_log, "set_" \o u \o "_axi_user")
                           lock == Position(boot_log,
                                            "lock_" \o u \o "_axi_user")
                       IN  /\ P("ready_for_fuses") < set
                           /\ set < lock
                           /\ lock < P(w)
        /\ P("populate_fuses") # 0 =>
              P("populate_fuses") < P("fuse_write_done")
        /\ P("RI_DOWNLOAD_FIRMWARE") # 0 =>
              /\ 0 < P("fuse_write_done")
              /\ P("fuse_write_done") < P("fuses_dropped")
              /\ P("fuses_dropped") < P("ready_for_mbox")
              /\ P("ready_for_mbox") < P("RI_DOWNLOAD_FIRMWARE")
        /\ P("mailbox_error") # 0 =>
              /\ boot_pc = "fatal"
              /\ boot_code \in {4, 5}
              /\ P("fw_ready") = 0
              /\ P("jump") = 0

\* the response to RI_DOWNLOAD_FIRMWARE failed after the fuses were written
\* and the ROM is in fatal_error(5)
Wit_C38_MailboxErrorFatal ==
    /\ boot_pc = "fatal"
    /\ boot_code = 5
    /\ Position(boot_log, "fuse_write_done") # 0
    /\ Position(boot_log, "mailbox_error") = Len(boot_log)

\* C39: when a test has left ReceiveResp it is marked passed only if a
\* response was received and it equals the expected response in length and
\* content; with no response or a differing one it is not passed.
Claim_C39_PassedOnlyOnExpectedResponse ==
    test_state \in {"Finish", "done"} =>
        (passed <=> (got_msg # <<>> /\ Len(got_msg) = Len(resp_msg)
                        /\ got_msg = resp_msg))

====
